---- MODULE Spec2Model ----
(***************************************************************************)
(* Model of the plot-level Lidar base transformer                          *)
(* (lidar-plot-base-transformer/transformer.py).                           *)
(*                                                                         *)
(* Python values are modelled as follows.                                  *)
(*   - a str is a sequence of one-character strings;                       *)
(*   - a dict is the sequence of its <<key, value>> items in insertion     *)
(*     order, keys pairwise distinct;                                      *)
(*   - a raised exception is a result record whose status names it.        *)
(***************************************************************************)
EXTENDS Integers, Sequences, FiniteSets, TLC

\* ------------------------------------------------------------------------
\* Bounds of the model
\* ------------------------------------------------------------------------
MaxNames == 2
MaxEntries == 3
MaxStrLen == 3
MaxLabelLen == 1
MaxCalls == 2
MaxPrev == 320
MaxPathLen == 3
MaxFiles == 2

\* ------------------------------------------------------------------------
\* Generic helpers
\* ------------------------------------------------------------------------
SeqsUpTo(S, n) == UNION {[1..k -> S] : k \in 0..n}

Range(s) == {s[i] : i \in DOMAIN s}

\* ------------------------------------------------------------------------
\* validate_calc_value: the values an algorithm may return
\* ------------------------------------------------------------------------
Keys == {"height", "width", "depth"}

Values == {3, 5}

ScalarKinds == {"int", "str", "none"}

DictItems ==
    {d \in SeqsUpTo(Keys \X Values, MaxEntries) :
        \A i, j \in DOMAIN d : i # j => d[i][1] # d[j][1]}

DistinctSeqs ==
    {s \in SeqsUpTo(Values, Cardinality(Values)) :
        \A i, j \in DOMAIN s : i # j => s[i] # s[j]}

\* kind: the Python type of the value; val: its items (a dict's items, the
\* elements of a list, tuple or set, the one payload of a scalar)
CalcValues ==
    {[kind |-> "dict", val |-> d] : d \in DictItems}
    \cup {[kind |-> k, val |-> s] : k \in {"list", "tuple"}, s \in SeqsUpTo(Values, MaxEntries)}
    \cup {[kind |-> "set", val |-> s] : s \in DistinctSeqs}
    \cup {[kind |-> k, val |-> <<v>>] : k \in ScalarKinds, v \in Values}

NameLists == SeqsUpTo(Keys, MaxNames)

VARIABLES
    calc_value,       \* validate_calc_value: the calc_value argument
    variable_names,   \* validate_calc_value: the variable_names argument
    vcv_pc,           \* "call" before the call, "done" after it
    vcv_result,       \* what the call returned or raised
    algorithm_lidar,  \* the algorithm module: attribute name -> declaration
    def_name,         \* get_algorithm_definition_*: the variable_name argument
    def_default,      \* get_algorithm_definition_*: the default_value argument
    def_pc,           \* "call" before a lookup, "done" after it
    def_result,       \* which lookup was made and what it returned or raised
    files,            \* the file system: CSV path -> does it exist, its lines
    writer,           \* per process: the state of its write_csv_file call
    open_faults,      \* how many more open() calls the environment lets fail
    write_faults,     \* how many more write() calls the environment lets fail
    calls,            \* how many write_csv_file calls were made so far
    list_files,       \* check_md['list_files'](): the captures of the run
    run_env,          \* the run's arguments and environment
    pp,               \* the state of perform_process
    backoff_call,     \* get_open_backoff: its argument, the random number, its result
    continue_call,    \* check_continue: what it returned for list_files
    centroid_call,    \* get_centroid_latlon: the file it is given and its result
    trait_call,       \* get_default_trait and the trait tables: arguments and results
    overlap_call,     \* one (capture, plot) pair: its overlap fraction and what became of it
    timestamp_call    \* get_metadata_timestamp: the metadata it is given and its result

vars == <<calc_value, variable_names, vcv_pc, vcv_result,
          algorithm_lidar, def_name, def_default, def_pc, def_result,
          files, writer, open_faults, write_faults, calls,
          list_files, run_env, pp,
          backoff_call, continue_call, centroid_call, trait_call, overlap_call,
          timestamp_call>>

pureVars == <<backoff_call, continue_call, centroid_call, trait_call, overlap_call,
              timestamp_call>>

processVars == <<list_files, run_env, pp>>

writerVars == <<files, writer, open_faults, write_faults, calls>>

configVars == <<algorithm_lidar, def_name, def_default, def_pc, def_result>>

validateVars == <<calc_value, variable_names, vcv_pc, vcv_result>>

\* key in calc_value
DictHas(d, key) == \E i \in DOMAIN d : d[i][1] = key

\* calc_value[key]
DictGet(d, key) == d[CHOOSE i \in DOMAIN d : d[i][1] = key][2]

\* Mutant of DictValues: walks the mapping in its own key order
\* (for key in calc_value: if key in variable_names: ...)
RECURSIVE DictValuesOwnOrder(_, _)
DictValuesOwnOrder(names, d) ==
    IF d = <<>> THEN <<>>
    ELSE (IF Head(d)[1] \in Range(names) THEN <<Head(d)[2]>> ELSE <<>>)
         \o DictValuesOwnOrder(names, Tail(d))

\* for key in variable_names: if key in calc_value: values.append(calc_value[key])
RECURSIVE DictValues(_, _)
DictValues(names, d) ==
    IF names = <<>> THEN <<>>
    ELSE (IF DictHas(d, Head(names)) THEN <<DictGet(d, Head(names))>> ELSE <<>>)
         \o DictValues(Tail(names), d)

Raised(exc, msg) == [status |-> exc, msg |-> msg, values |-> <<>>]

Returned(values) == [status |-> "ok", msg |-> "", values |-> values]

NoResult == [status |-> "pending", msg |-> "", values |-> <<>>]

\* Mutant of NormalizedValues: the scalar branch is missing, a scalar leaves
\* the initial empty list
NormalizedValues_NoScalarWrap(cv, names) ==
    IF cv.kind = "dict" THEN DictValues(names, cv.val) ELSE <<>>

\* The list built by the branches of lines 651-663: a dict gives the values of
\* the expected names it holds, a list or tuple matches neither branch and
\* leaves the initial empty list, anything else is wrapped.
NormalizedValues(cv, names) ==
    IF cv.kind = "dict" THEN DictValues(names, cv.val)
    ELSE IF cv.kind \notin {"list", "tuple"} THEN cv.val
    ELSE <<>>

\* Mutant of validate_calc_value: the arity check only rejects too few values
validate_calc_value_AtLeast(cv, names) ==
    IF cv.kind = "set"
    THEN Raised("RuntimeError", "unsupported type")
    ELSE LET values == NormalizedValues(cv, names)
         IN  IF Len(values) < Len(names)
             THEN Raised("RuntimeError", "incorrect number of values")
             ELSE Returned(values)

\* Mutant of validate_calc_value: the isinstance(calc_value, set) test is missing
validate_calc_value_NoSetCheck(cv, names) ==
    LET values == NormalizedValues(cv, names)
    IN  IF Len(values) # Len(names)
        THEN Raised("RuntimeError", "incorrect number of values")
        ELSE Returned(values)

validate_calc_value(cv, names) ==
    IF cv.kind = "set"
    THEN Raised("RuntimeError", "unsupported type")
    ELSE LET values == NormalizedValues(cv, names)
         IN  IF Len(values) # Len(names)
             THEN Raised("RuntimeError", "incorrect number of values")
             ELSE Returned(values)

CallValidate ==
    /\ vcv_pc = "call"
    /\ vcv_result' = validate_calc_value(calc_value, variable_names)
    /\ vcv_pc' = "done"
    /\ UNCHANGED <<calc_value, variable_names, configVars, writerVars, processVars, pureVars>>

ValidateIdle ==
    /\ calc_value = [kind |-> "none", val |-> <<0>>]
    /\ variable_names = <<>>
    /\ vcv_pc = "idle"
    /\ vcv_result = NoResult

\* ------------------------------------------------------------------------
\* The algorithm module and the lookups of its declarations
\* ------------------------------------------------------------------------
Chars == {"a", ",", " "}

Strings(n) == SeqsUpTo(Chars, n)

\* A declaration of the algorithm module: absent (no such attribute), None, a
\* bool (b) or a str (s)
Decl(type, b, str) == [type |-> type, b |-> b, s |-> str]

Absent == Decl("absent", FALSE, <<>>)

DeclNone == Decl("none", FALSE, <<>>)

DeclBool(b) == Decl("bool", b, <<>>)

DeclStr(str) == Decl("str", FALSE, str)

\* def calculate(...) in the algorithm module
DeclFunction == Decl("function", FALSE, <<>>)

DeclValues(n) ==
    {Absent, DeclNone} \cup {DeclBool(b) : b \in BOOLEAN} \cup {DeclStr(str) : str \in Strings(n)}

AttrNames ==
    {"calculate", "VARIABLE_NAMES", "VARIABLE_UNITS", "VARIABLE_LABELS",
     "WRITE_GEOSTREAMS_CSV", "WRITE_BETYDB_CSV", "VERSION", "ALGORITHM_NAME",
     "CITATION_AUTHOR", "CITATION_TITLE", "CITATION_YEAR", "ALGORITHM_METHOD"}

\* hasattr(algorithm_lidar, name)
hasattr(module, name) == module[name].type # "absent"

\* Python truth value of a declaration
Truthy(decl) ==
    CASE decl.type = "bool" -> decl.b
      [] decl.type = "str" -> decl.s # <<>>
      [] decl.type = "function" -> TRUE
      [] OTHER -> FALSE

\* str.strip(): leading and trailing blanks removed
RECURSIVE LStrip(_)
LStrip(str) == IF str # <<>> /\ Head(str) = " " THEN LStrip(Tail(str)) ELSE str

RECURSIVE RStrip(_)
RStrip(str) ==
    IF str # <<>> /\ str[Len(str)] = " " THEN RStrip(SubSeq(str, 1, Len(str) - 1)) ELSE str

Strip(str) == RStrip(LStrip(str))

\* str.split(','): the parts between the commas, empty parts kept
RECURSIVE Split(_)
Split(str) ==
    IF \A i \in DOMAIN str : str[i] # ","
    THEN <<str>>
    ELSE LET i == CHOOSE k \in DOMAIN str :
                     str[k] = "," /\ \A j \in 1..(k - 1) : str[j] # ","
         IN  <<SubSeq(str, 1, i - 1)>> \o Split(SubSeq(str, i + 1, Len(str)))

DefResult(op, status, b, str, list) ==
    [op |-> op, status |-> status, b |-> b, s |-> str, list |-> list]

NoLookup == DefResult("none", "pending", FALSE, <<>>, <<>>)

\* value if value else default_value, value being True only for a truthy
\* declaration
get_algorithm_definition_bool(module, name, default_value) ==
    LET value == IF hasattr(module, name) /\ Truthy(module[name]) THEN TRUE ELSE FALSE
    IN  IF value THEN value ELSE default_value

get_algorithm_definition_str(module, name, default_value) ==
    LET value == IF hasattr(module, name) /\ module[name].type = "str"
                 THEN Strip(module[name].s) ELSE <<>>
    IN  IF value # <<>> THEN value ELSE default_value

\* Mutant of get_algorithm_variable_list: the test for an empty declaration is
\* missing
get_algorithm_variable_list_NoEmptyCheck(module, name) ==
    IF ~hasattr(module, name)
    THEN DefResult("list", "RuntimeError", FALSE, <<>>, <<>>)
    ELSE IF module[name].type # "str"
    THEN DefResult("list", "AttributeError", FALSE, <<>>, <<>>)
    ELSE DefResult("list", "ok", FALSE, <<>>, Split(Strip(module[name].s)))

\* Result of get_algorithm_variable_list: status "ok" with the list, or the
\* exception raised (AttributeError: the declaration has no strip())
get_algorithm_variable_list(module, name) ==
    IF ~hasattr(module, name)
    THEN DefResult("list", "RuntimeError", FALSE, <<>>, <<>>)
    ELSE IF module[name].type # "str"
    THEN DefResult("list", "AttributeError", FALSE, <<>>, <<>>)
    ELSE LET names == Strip(module[name].s)
         IN  IF names = <<>>
             THEN DefResult("list", "RuntimeError", FALSE, <<>>, <<>>)
             ELSE DefResult("list", "ok", FALSE, <<>>, Split(names))

get_algorithm_variable_labels(module) ==
    IF ~hasattr(module, "VARIABLE_LABELS")
    THEN DefResult("list", "ok", FALSE, <<>>, <<>>)
    ELSE IF module["VARIABLE_LABELS"].type # "str"
    THEN DefResult("list", "AttributeError", FALSE, <<>>, <<>>)
    ELSE LET labels == Strip(module["VARIABLE_LABELS"].s)
         IN  IF labels # <<>>
             THEN DefResult("list", "ok", FALSE, <<>>, Split(labels))
             ELSE DefResult("list", "ok", FALSE, <<>>, <<>>)

CSV_TRAIT_NAMES ==
    << <<"germplasmName">>, <<"site">>, <<"timestamp">>, <<"lat">>, <<"lon">>,
       <<"citation_author">>, <<"citation_year">>, <<"citation_title">> >>

\* field_name, then ' %s' % label and ' (%s)' % unit where the lists reach idx
\* (idx counted from 1 here)
FieldHeader(field_name, idx, labels, units) ==
    field_name
    \o (IF idx <= Len(labels) THEN <<" ">> \o labels[idx] ELSE <<>>)
    \o (IF idx <= Len(units) THEN <<" ", "(">> \o units[idx] \o <<")">> ELSE <<>>)

get_csv_header_fields(module) ==
    LET namesR == get_algorithm_variable_list(module, "VARIABLE_NAMES")
        unitsR == get_algorithm_variable_list(module, "VARIABLE_UNITS")
        labelsR == get_algorithm_variable_labels(module)
    IN  IF namesR.status # "ok" THEN [namesR EXCEPT !.op = "header"]
        ELSE IF unitsR.status # "ok" THEN [unitsR EXCEPT !.op = "header"]
        ELSE IF labelsR.status # "ok" THEN [labelsR EXCEPT !.op = "header"]
        ELSE DefResult("header", "ok", FALSE, <<>>,
                 CSV_TRAIT_NAMES
                 \o [idx \in DOMAIN namesR.list |->
                        FieldHeader(namesR.list[idx], idx, labelsR.list, unitsR.list)])

ConfigIdle ==
    /\ algorithm_lidar = [a \in AttrNames |-> Absent]
    /\ def_name = "VERSION"
    /\ def_default = Decl("bool", FALSE, <<>>)
    /\ def_pc = "idle"
    /\ def_result = NoLookup

CallDefinitionBool ==
    /\ def_pc = "call"
    /\ def_result' = DefResult("bool", "ok",
            get_algorithm_definition_bool(algorithm_lidar, def_name, def_default.b), <<>>, <<>>)
    /\ def_pc' = "done"
    /\ UNCHANGED <<algorithm_lidar, def_name, def_default, validateVars, pureVars, writerVars, processVars>>

CallDefinitionStr ==
    /\ def_pc = "call"
    /\ def_result' = DefResult("str", "ok", FALSE,
            get_algorithm_definition_str(algorithm_lidar, def_name, def_default.s), <<>>)
    /\ def_pc' = "done"
    /\ UNCHANGED <<algorithm_lidar, def_name, def_default, validateVars, pureVars, writerVars, processVars>>

CallVariableList ==
    /\ def_pc = "call"
    /\ def_result' = get_algorithm_variable_list(algorithm_lidar, def_name)
    /\ def_pc' = "done"
    /\ UNCHANGED <<algorithm_lidar, def_name, def_default, validateVars, pureVars, writerVars, processVars>>

CallHeaderFields ==
    /\ def_pc = "call"
    /\ def_result' = get_csv_header_fields(algorithm_lidar)
    /\ def_pc' = "done"
    /\ UNCHANGED <<algorithm_lidar, def_name, def_default, validateVars, pureVars, writerVars, processVars>>

\* ------------------------------------------------------------------------
\* write_csv_file: the resilient CSV writer
\* ------------------------------------------------------------------------
MAX_CSV_FILE_OPEN_TRIES == 10

MAX_FILE_OPEN_SLEEP_SEC == 30

FILE_NAME_CSV == "lidar_plot.csv"

FILE_NAME_GEO_CSV == "lidar_plot_geo.csv"

FILE_NAME_BETYDB_CSV == "lidar_plot_betydb.csv"

CsvFiles == {FILE_NAME_CSV, FILE_NAME_GEO_CSV, FILE_NAME_BETYDB_CSV}

\* The processes that may append to the CSV files
Procs == {"w1", "w2"}

\* Python's None where a str is expected
NoneArg == "<None>"

\* not x, for an argument that is a str or None
Falsy(x) == x = NoneArg \/ x = ""

\* backoff_secs = None; the backoffs are counted in tenths of a second
BackoffNone == -1

\* The values random() may return, in thousandths
Multipliers == {0, 500, 999}

Max(a, b) == IF a >= b THEN a ELSE b

\* Mutant of get_open_backoff: the result is not capped (lines 360-361 missing)
get_open_backoff_NoCap(prev, multiplier) ==
    IF prev = BackoffNone THEN 10 ELSE (prev * multiplier) \div 100

\* prev and the result in tenths of a second, multiplier in thousandths:
\* trunc(prev * multiplier * 100) / 10.0 seconds are (prev * multiplier) \div 100
\* tenths, and max(0.1, trunc(multiplier * 100) / 10) seconds are
\* max(1, multiplier \div 10) tenths
get_open_backoff(prev, multiplier) ==
    IF prev = BackoffNone THEN 10
    ELSE LET sleep == (prev * multiplier) \div 100
         IN  IF sleep > MAX_FILE_OPEN_SLEEP_SEC * 10
             THEN Max(1, multiplier \div 10)
             ELSE sleep

NoFile == [exists |-> FALSE, lines |-> <<>>]

IdleWriter ==
    [pc |-> "idle", filename |-> "", header |-> "", data |-> "",
     tries |-> 0, backoff_secs |-> BackoffNone, csv_file |-> "None", buffer |-> <<>>,
     wrote_file |-> FALSE, exc |-> "", ret |-> "none", opens |-> 0, sleeps |-> 0]

\* The call write_csv_file(filename, header, data) is entered
EnterWrite(filename, header, data) ==
    [IdleWriter EXCEPT !.pc = "check", !.filename = filename, !.header = header,
                       !.data = data]

\* Mutant of W_Check: only the filename is tested
W_Check_FilenameOnly(p) ==
    /\ writer[p].pc = "check"
    /\ IF Falsy(writer[p].filename)
       THEN writer' = [writer EXCEPT ![p].ret = "False", ![p].pc = "done"]
       ELSE writer' = [writer EXCEPT ![p].csv_file = "None",
                                     ![p].backoff_secs = BackoffNone,
                                     ![p].tries = 0, ![p].pc = "open"]
    /\ UNCHANGED <<files, open_faults, write_faults, calls>>
    /\ UNCHANGED <<validateVars, pureVars, configVars, processVars>>

\* if not filename or not data: return False (lines 381-386)
W_Check(p) ==
    /\ writer[p].pc = "check"
    /\ IF Falsy(writer[p].filename) \/ Falsy(writer[p].data)
       THEN writer' = [writer EXCEPT ![p].ret = "False", ![p].pc = "done"]
       ELSE writer' = [writer EXCEPT ![p].csv_file = "None",
                                     ![p].backoff_secs = BackoffNone,
                                     ![p].tries = 0, ![p].pc = "open"]
    /\ UNCHANGED <<files, open_faults, write_faults, calls>>
    /\ UNCHANGED <<validateVars, pureVars, configVars, processVars>>

\* open(filename, 'a+') succeeds: the file exists from now on (lines 389, 394)
W_OpenOk(p) ==
    /\ writer[p].pc = "open"
    /\ files' = [files EXCEPT ![writer[p].filename].exists = TRUE]
    /\ writer' = [writer EXCEPT ![p].csv_file = "open", ![p].wrote_file = FALSE,
                                ![p].opens = @ + 1, ![p].pc = "header"]
    /\ UNCHANGED <<open_faults, write_faults, calls>>
    /\ UNCHANGED <<validateVars, pureVars, configVars, processVars>>

\* Mutant of W_OpenFails: the loop gives up one try early
W_OpenFails_OneTryShort(p) ==
    /\ writer[p].pc = "open"
    /\ open_faults > 0
    /\ open_faults' = open_faults - 1
    /\ IF writer[p].tries < MAX_CSV_FILE_OPEN_TRIES - 2
       THEN writer' = [writer EXCEPT ![p].opens = @ + 1, ![p].pc = "sleep"]
       ELSE writer' = [writer EXCEPT ![p].opens = @ + 1, ![p].ret = "False",
                                     ![p].pc = "done"]
    /\ UNCHANGED <<files, write_faults, calls>>
    /\ UNCHANGED <<validateVars, pureVars, configVars, processVars>>

\* open(filename, 'a+') raises: sleep unless this was the last try, and give
\* up after the last one (lines 390-405)
W_OpenFails(p) ==
    /\ writer[p].pc = "open"
    /\ open_faults > 0
    /\ open_faults' = open_faults - 1
    /\ IF writer[p].tries < MAX_CSV_FILE_OPEN_TRIES - 1
       THEN writer' = [writer EXCEPT ![p].opens = @ + 1, ![p].pc = "sleep"]
       ELSE writer' = [writer EXCEPT ![p].opens = @ + 1, ![p].ret = "False",
                                     ![p].pc = "done"]
    /\ UNCHANGED <<files, write_faults, calls>>
    /\ UNCHANGED <<validateVars, pureVars, configVars, processVars>>

\* backoff_secs = get_open_backoff(backoff_secs); time.sleep(backoff_secs);
\* then the next iteration of the loop (lines 398-401, 387)
W_Sleep(p) ==
    /\ writer[p].pc = "sleep"
    /\ \E multiplier \in Multipliers :
          writer' = [writer EXCEPT
                        ![p].backoff_secs = get_open_backoff(writer[p].backoff_secs, multiplier),
                        ![p].sleeps = @ + 1, ![p].tries = @ + 1, ![p].pc = "open"]
    /\ UNCHANGED <<files, open_faults, write_faults, calls>>
    /\ UNCHANGED <<validateVars, pureVars, configVars, processVars>>

\* os.fstat(csv_file.fileno()).st_size: every line ends in a newline, so the
\* size is zero exactly when the file has no line
FileSize(f) == Len(files[f].lines)

\* Mutant of W_Header: the header is written without looking at the size
W_Header_Always(p) ==
    /\ writer[p].pc = "header"
    /\ IF writer[p].header = NoneArg
       THEN /\ writer' = [writer EXCEPT ![p].exc = "TypeError", ![p].pc = "close"]
            /\ UNCHANGED write_faults
       ELSE \/ /\ writer' = [writer EXCEPT ![p].buffer = Append(@, writer[p].header),
                                           ![p].pc = "data"]
               /\ UNCHANGED write_faults
            \/ /\ write_faults > 0
               /\ write_faults' = write_faults - 1
               /\ writer' = [writer EXCEPT ![p].exc = "OSError", ![p].pc = "close"]
    /\ UNCHANGED <<files, open_faults, calls>>
    /\ UNCHANGED <<validateVars, pureVars, configVars, processVars>>

\* if st_size <= 0: csv_file.write(header + "\n"), the write going to the
\* buffer of the file object; header + "\n" raises TypeError for a None header
\* (lines 408-411)
W_Header(p) ==
    /\ writer[p].pc = "header"
    /\ IF FileSize(writer[p].filename) <= 0
       THEN IF writer[p].header = NoneArg
            THEN /\ writer' = [writer EXCEPT ![p].exc = "TypeError", ![p].pc = "close"]
                 /\ UNCHANGED write_faults
            ELSE \/ /\ writer' = [writer EXCEPT ![p].buffer = Append(@, writer[p].header),
                                                ![p].pc = "data"]
                    /\ UNCHANGED write_faults
                 \/ /\ write_faults > 0
                    /\ write_faults' = write_faults - 1
                    /\ writer' = [writer EXCEPT ![p].exc = "OSError", ![p].pc = "close"]
       ELSE /\ writer' = [writer EXCEPT ![p].pc = "data"]
            /\ UNCHANGED write_faults
    /\ UNCHANGED <<files, open_faults, calls>>
    /\ UNCHANGED <<validateVars, pureVars, configVars, processVars>>

\* Mutant of W_Data: no finally clause, a failed write leaves the call with the
\* file still open
W_Data_NoFinally(p) ==
    /\ writer[p].pc = "data"
    /\ \/ /\ writer' = [writer EXCEPT ![p].buffer = Append(@, writer[p].data),
                                      ![p].wrote_file = TRUE, ![p].pc = "close"]
          /\ UNCHANGED write_faults
       \/ /\ write_faults > 0
          /\ write_faults' = write_faults - 1
          /\ writer' = [writer EXCEPT ![p].exc = "OSError", ![p].ret = "raised",
                                      ![p].pc = "done"]
    /\ UNCHANGED <<files, open_faults, calls>>
    /\ UNCHANGED <<validateVars, pureVars, configVars, processVars>>

\* csv_file.write(data + "\n"); wrote_file = True (lines 413-416)
W_Data(p) ==
    /\ writer[p].pc = "data"
    /\ \/ /\ writer' = [writer EXCEPT ![p].buffer = Append(@, writer[p].data),
                                      ![p].wrote_file = TRUE, ![p].pc = "close"]
          /\ UNCHANGED write_faults
       \/ /\ write_faults > 0
          /\ write_faults' = write_faults - 1
          /\ writer' = [writer EXCEPT ![p].exc = "OSError", ![p].pc = "close"]
    /\ UNCHANGED <<files, open_faults, calls>>
    /\ UNCHANGED <<validateVars, pureVars, configVars, processVars>>

\* Mutant of W_Close: the file is rewritten from its start (mode 'w')
W_Close_Rewrite(p) ==
    /\ writer[p].pc = "close"
    /\ files' = [files EXCEPT ![writer[p].filename].lines = writer[p].buffer]
    /\ writer' = [writer EXCEPT
                     ![p].buffer = <<>>, ![p].csv_file = "closed",
                     ![p].ret = IF writer[p].exc # "" THEN "raised"
                                ELSE IF writer[p].wrote_file THEN "True" ELSE "False",
                     ![p].pc = "done"]
    /\ UNCHANGED <<open_faults, write_faults, calls>>
    /\ UNCHANGED <<validateVars, pureVars, configVars, processVars>>

\* finally: csv_file.close(), which appends the buffered lines to the file;
\* then the exception is re-raised or wrote_file is returned (lines 417-425)
W_Close(p) ==
    /\ writer[p].pc = "close"
    /\ files' = [files EXCEPT ![writer[p].filename].lines = @ \o writer[p].buffer]
    /\ writer' = [writer EXCEPT
                     ![p].buffer = <<>>, ![p].csv_file = "closed",
                     ![p].ret = IF writer[p].exc # "" THEN "raised"
                                ELSE IF writer[p].wrote_file THEN "True" ELSE "False",
                     ![p].pc = "done"]
    /\ UNCHANGED <<open_faults, write_faults, calls>>
    /\ UNCHANGED <<validateVars, pureVars, configVars, processVars>>

WriterStep(p) ==
    \/ W_Check(p) \/ W_OpenOk(p) \/ W_OpenFails(p) \/ W_Sleep(p)
    \/ W_Header(p) \/ W_Data(p) \/ W_Close(p)

\* A caller of write_csv_file: any arguments, one call after the other
FilenameArgs == {NoneArg, "", FILE_NAME_CSV}

HeaderArgs == {NoneArg, "site,trait"}

DataArgs == {NoneArg, "", "row1", "row2"}

CallWrite(p) ==
    /\ writer[p].pc \in {"idle", "done"}
    /\ calls < MaxCalls
    /\ calls' = calls + 1
    /\ \E filename \in FilenameArgs, header \in HeaderArgs, data \in DataArgs :
          writer' = [writer EXCEPT ![p] = EnterWrite(filename, header, data)]
    /\ UNCHANGED <<files, open_faults, write_faults>>
    /\ UNCHANGED <<validateVars, pureVars, configVars, processVars>>

\* A launch that appends one row to the flat CSV file, as write_trait_csv does:
\* the file's own header each time, a row as data
AppendHeader == "site,trait"

AppendRows == {"row1", "row2"}

CallAppend(p) ==
    /\ writer[p].pc \in {"idle", "done"}
    /\ calls < MaxCalls
    /\ calls' = calls + 1
    /\ \E data \in AppendRows :
          writer' = [writer EXCEPT ![p] = EnterWrite(FILE_NAME_CSV, AppendHeader, data)]
    /\ UNCHANGED <<files, open_faults, write_faults>>
    /\ UNCHANGED <<validateVars, pureVars, configVars, processVars>>

WriterIdle ==
    /\ files = [f \in CsvFiles |-> NoFile]
    /\ writer = [p \in Procs |-> IdleWriter]
    /\ open_faults = 0
    /\ write_faults = 0
    /\ calls = 0

\* ------------------------------------------------------------------------
\* The trait tables and the rows written from them
\* ------------------------------------------------------------------------
\* A str as TLC knows it, from its characters
RECURSIVE ToStr(_)
ToStr(chars) == IF chars = <<>> THEN "" ELSE Head(chars) \o ToStr(Tail(chars))

\* sep.join(strs)
RECURSIVE Join(_, _)
Join(strs, sep) ==
    IF strs = <<>> THEN ""
    ELSE IF Len(strs) = 1 THEN strs[1]
    ELSE strs[1] \o sep \o Join(Tail(strs), sep)

\* Python values held by a trait: a str, an empty list or None
PyStr(str) == [type |-> "str", s |-> str]

PyEmptyList == [type |-> "list", s |-> ""]

PyNone == [type |-> "none", s |-> ""]

\* str(value)
StrOf(value) ==
    CASE value.type = "list" -> "[]"
      [] value.type = "none" -> "None"
      [] OTHER -> value.s

TRAIT_NAME_ARRAY_VALUE == <<"canopy_cover", "site">>

TRAIT_NAME_MAP ==
    [name \in {"local_datetime", "access_level", "species", "site", "citation_author",
               "citation_year", "citation_title", "method"} |->
        CASE name = "local_datetime" -> PyNone
          [] name = "access_level" -> PyStr("2")
          [] name = "species" -> PyStr("Unknown")
          [] name = "site" -> PyStr("")
          [] name = "citation_author" -> PyStr("\"Unknown\"")
          [] name = "citation_year" -> PyStr("0000")
          [] name = "citation_title" -> PyStr("Unknown")
          [] name = "method" -> PyStr("Unknown")]

GEO_TRAIT_NAMES ==
    <<"site", "trait", "lat", "lon", "dp_time", "source", "value", "timestamp">>

BETYDB_TRAIT_NAMES ==
    <<"local_datetime", "access_level", "species", "site", "citation_author",
      "citation_year", "citation_title", "method">>

\* Mutant of get_default_trait: the mapping is looked up before the list of
\* array-valued names
get_default_trait_MapFirst(trait_name) ==
    IF trait_name \in DOMAIN TRAIT_NAME_MAP THEN TRAIT_NAME_MAP[trait_name]
    ELSE IF trait_name \in Range(TRAIT_NAME_ARRAY_VALUE) THEN PyEmptyList
    ELSE PyStr("")

get_default_trait(trait_name) ==
    IF trait_name \in Range(TRAIT_NAME_ARRAY_VALUE) THEN PyEmptyList
    ELSE IF trait_name \in DOMAIN TRAIT_NAME_MAP THEN TRAIT_NAME_MAP[trait_name]
    ELSE PyStr("")

StrList(charSeqs) == [i \in DOMAIN charSeqs |-> ToStr(charSeqs[i])]

get_csv_fields(names) == StrList(CSV_TRAIT_NAMES) \o StrList(names)

get_geo_fields == GEO_TRAIT_NAMES

get_bety_fields(names) == BETYDB_TRAIT_NAMES \o StrList(names)

\* getattr(algorithm_lidar, name) as a trait value
DeclTrait(decl) ==
    CASE decl.type = "str" -> PyStr(ToStr(decl.s))
      [] decl.type = "bool" -> PyStr(IF decl.b THEN "True" ELSE "False")
      [] OTHER -> PyNone

\* traits[field], overridden by the declaration attr when it is there and truthy
Overridden(module, traits, field, attr) ==
    IF field \in DOMAIN traits /\ hasattr(module, attr) /\ Truthy(module[attr])
    THEN [traits EXCEPT ![field] = DeclTrait(module[attr])]
    ELSE traits

get_csv_traits_table(module, names) ==
    LET fields == get_csv_fields(names)
        traits == [f \in Range(fields) |-> get_default_trait(f)]
        t1 == Overridden(module, traits, "citation_author", "CITATION_AUTHOR")
        t2 == Overridden(module, t1, "citation_title", "CITATION_TITLE")
        t3 == Overridden(module, t2, "citation_year", "CITATION_YEAR")
    IN  [fields |-> fields, traits |-> t3]

get_geo_traits_table ==
    [fields |-> get_geo_fields, traits |-> [f \in Range(get_geo_fields) |-> PyStr("")]]

get_bety_traits_table(module, names) ==
    LET fields == get_bety_fields(names)
        traits == [f \in Range(fields) |-> get_default_trait(f)]
        t1 == Overridden(module, traits, "citation_author", "CITATION_AUTHOR")
        t2 == Overridden(module, t1, "citation_title", "CITATION_TITLE")
        t3 == Overridden(module, t2, "citation_year", "CITATION_YEAR")
        t4 == Overridden(module, t3, "method", "ALGORITHM_METHOD")
    IN  [fields |-> fields, traits |-> t4]

generate_traits_list(fields, traits) ==
    [i \in DOMAIN fields |->
        IF fields[i] \in DOMAIN traits THEN traits[fields[i]]
        ELSE get_default_trait(fields[i])]

\* csv_data = ','.join(map(str, trait_list)) of write_trait_csv
TraitCsvData(fields, traits) ==
    LET trait_list == generate_traits_list(fields, traits)
    IN  Join([i \in DOMAIN trait_list |-> StrOf(trait_list[i])], ",")

\* traits with traits[names[i]] = str(values[i]) for i = 1..upto, in that order
RECURSIVE WithValues(_, _, _, _)
WithValues(traits, names, values, upto) ==
    IF upto = 0 THEN traits
    ELSE LET before == WithValues(traits, names, values, upto - 1)
             field == ToStr(names[upto])
             value == PyStr(ToString(values[upto]))
         IN  [f \in DOMAIN before \cup {field} |-> IF f = field THEN value ELSE before[f]]

\* What the run knows about itself: the cultivar, the site name found in the
\* metadata, the date and local time of the run's timestamp
Cultivar == "cultivar"

PlotName == "plot"

DateStamp == "2020-01-31"

LocalTime == "2020-01-31T10:20:30"

\* str(centroid.GetY()), str(centroid.GetX()) of a capture
LatOf(capture) == IF capture.georef.readable THEN "lat:" \o capture.path ELSE "nan"

LonOf(capture) == IF capture.georef.readable THEN "lon:" \o capture.path ELSE "nan"

\* The geostreams row of variable var_idx (lines 811-824)
GeoRow(capture, names, values, var_idx) ==
    LET table == get_geo_traits_table
        traits == [table.traits EXCEPT
                      !["site"] = PyStr(PlotName),
                      !["lat"] = PyStr(LatOf(capture)),
                      !["lon"] = PyStr(LonOf(capture)),
                      !["dp_time"] = PyStr(LocalTime),
                      !["source"] = PyStr(capture.path),
                      !["timestamp"] = PyStr(DateStamp),
                      !["trait"] = PyStr(ToStr(names[var_idx])),
                      !["value"] = PyStr(ToString(values[var_idx]))]
    IN  TraitCsvData(table.fields, traits)

\* The flat CSV row (lines 778-779, 828-835)
CsvRow(module, capture, names, values) ==
    LET table == get_csv_traits_table(module, names)
        valued == WithValues(table.traits, names, values, Len(names))
        traits == [valued EXCEPT
                      !["germplasmName"] = PyStr(Cultivar),
                      !["site"] = PyStr(PlotName),
                      !["timestamp"] = PyStr(DateStamp),
                      !["lat"] = PyStr(LatOf(capture)),
                      !["lon"] = PyStr(LonOf(capture))]
    IN  TraitCsvData(table.fields, traits)

\* The BETYdb row (lines 781-782, 829, 837-840)
BetyRow(module, capture, names, values) ==
    LET table == get_bety_traits_table(module, names)
        valued == WithValues(table.traits, names, values, Len(names))
        traits == [valued EXCEPT
                      !["species"] = PyStr(Cultivar),
                      !["site"] = PyStr(PlotName),
                      !["local_datetime"] = PyStr(LocalTime)]
    IN  TraitCsvData(table.fields, traits)

\* ------------------------------------------------------------------------
\* The georeference of a file and its centroid
\* ------------------------------------------------------------------------
\* What gdal finds in a file: can image_get_geobounds read it (readable), its
\* geotransform and raster size, and what get_epsg returns for it: "None", a
\* code osr can import ("32612") or one it cannot ("unsupported")
GeoRef(readable, ulx, uly, xres, yres, xsize, ysize, epsg) ==
    [readable |-> readable, ulx |-> ulx, uly |-> uly, xres |-> xres, yres |-> yres,
     xsize |-> xsize, ysize |-> ysize, epsg |-> epsg]

GeoOk == GeoRef(TRUE, 0, 10, 1, -1, 4, 2, "32612")

EpsgValues == {"None", "32612", "unsupported"}

GeoRefs ==
    {GeoRef(readable, ulx, uly, 1, yres, xsize, 2, epsg) :
        readable \in BOOLEAN, ulx \in {0, 10}, uly \in {0, 10}, yres \in {-1, 1},
        xsize \in {2, 4}, epsg \in EpsgValues}

\* A float: numpy.nan or a number
Float(v) == [nan |-> FALSE, v |-> v]

NaN == [nan |-> TRUE, v |-> 0]

\* a == b on floats: never true when one of them is nan
FloatEq(a, b) == ~a.nan /\ ~b.nan /\ a.v = b.v

Min(a, b) == IF a <= b THEN a ELSE b

\* [min_y, max_y, min_x, max_x], or four nan when the file cannot be read
\* (lines 212-227)
image_get_geobounds(g) ==
    IF ~g.readable THEN <<NaN, NaN, NaN, NaN>>
    ELSE LET lrx == g.ulx + g.xsize * g.xres
             lry == g.uly + g.ysize * g.yres
         IN  <<Float(Min(g.uly, lry)), Float(Max(g.uly, lry)),
               Float(Min(g.ulx, lrx)), Float(Max(g.ulx, lrx))>>

\* lines 237-246
get_epsg(g) == g.epsg

\* What get_centroid_latlon gives: a RuntimeError, or the centroid it returns:
\* a point (x2, y2: twice the coordinates of the middle of the bounds, before
\* their conversion to lat-lon), a point of nan coordinates, or None
CentroidRaised(msg) == [status |-> "RuntimeError", msg |-> msg, kind |-> "", x2 |-> 0, y2 |-> 0]

CentroidReturned(kind, x2, y2) == [status |-> "ok", msg |-> "", kind |-> kind, x2 |-> x2, y2 |-> y2]

\* What ogr makes of a polygon of nan coordinates
NanCentroidKinds == {"nan_point", "None"}

\* lines 259-305; nan_kind is what ogr returns for the polygon when the bounds
\* are nan
get_centroid_latlon(g, nan_kind) ==
    LET bounds == image_get_geobounds(g)
    IN  IF FloatEq(bounds[1], NaN)
        THEN CentroidRaised("File is not a geo-referenced image file")
        ELSE IF get_epsg(g) = "None"
        THEN CentroidRaised("EPSG is not found in image file")
        ELSE IF get_epsg(g) = "unsupported"
        THEN CentroidRaised("Failed to import EPSG")
        ELSE IF bounds[1].nan THEN CentroidReturned(nan_kind, 0, 0)
        ELSE CentroidReturned("point", bounds[3].v + bounds[4].v, bounds[1].v + bounds[2].v)

NoCentroid == [status |-> "pending", msg |-> "", kind |-> "", x2 |-> 0, y2 |-> 0]

IdleCentroid == [pc |-> "idle", file |-> GeoOk, result |-> NoCentroid]

CallCentroid ==
    /\ centroid_call.pc = "call"
    /\ \E nan_kind \in NanCentroidKinds :
          centroid_call' = [centroid_call EXCEPT
                               !.pc = "done",
                               !.result = get_centroid_latlon(centroid_call.file, nan_kind)]
    /\ UNCHANGED <<backoff_call, continue_call, trait_call, overlap_call, timestamp_call,
                   validateVars, configVars, writerVars, processVars>>

\* ------------------------------------------------------------------------
\* perform_process
\* ------------------------------------------------------------------------
supported_image_file_exts == <<"tif", "tiff", "jpg">>

\* The process that runs perform_process
Runner == "w1"

\* os.path.splitext(one_file)[1].strip('.') is the ext field of a capture
filter_file_list_by_ext(source_files, known_exts) ==
    SelectSeq(source_files, LAMBDA one_file : one_file.ext \in Range(known_exts))

NoRunResult == [code |-> 1, files_processed |-> 0, lines_written |-> 0, file |-> <<>>]

IdleProcess ==
    [pc |-> "idle", variable_names |-> <<>>, csv_header |-> "", geo_csv_header |-> "",
     bety_csv_header |-> "", write_geostreams_csv |-> FALSE, write_betydb_csv |-> FALSE,
     image_files |-> <<>>, file_idx |-> 0, var_idx |-> 0, values |-> <<>>,
     num_image_files |-> 0, entries_written |-> 0, error |-> "", result |-> NoRunResult]

\* An exception leaves perform_process
RunRaised(exc) == [pp EXCEPT !.pc = "raised", !.error = exc]

\* Lines 754-789: the environment check, the variable names, the CSV paths, the
\* time stamps, the flags, the trait tables and the headers; any exception
\* raised here leaves perform_process
PP_Setup ==
    /\ pp.pc = "start"
    /\ LET namesR == get_algorithm_variable_list(algorithm_lidar, "VARIABLE_NAMES")
           headerR == get_csv_header_fields(algorithm_lidar)
       IN  pp' =
             IF ~hasattr(algorithm_lidar, "calculate")
             THEN [pp EXCEPT !.pc = "returned", !.result = [NoRunResult EXCEPT !.code = -1001]]
             ELSE IF namesR.status # "ok" THEN RunRaised(namesR.status)
             ELSE IF ~run_env.csv_dir_ok THEN RunRaised("TypeError")
             ELSE IF ~run_env.timestamp_ok THEN RunRaised("ValueError")
             ELSE IF headerR.status # "ok" THEN RunRaised(headerR.status)
             ELSE [pp EXCEPT
                     !.pc = "loop",
                     !.variable_names = namesR.list,
                     !.write_geostreams_csv =
                         run_env.geostreams_csv
                         \/ get_algorithm_definition_bool(algorithm_lidar, "WRITE_GEOSTREAMS_CSV", TRUE),
                     !.write_betydb_csv =
                         run_env.betydb_csv
                         \/ get_algorithm_definition_bool(algorithm_lidar, "WRITE_BETYDB_CSV", TRUE),
                     !.csv_header = Join(StrList(headerR.list), ","),
                     !.geo_csv_header = Join(get_geo_traits_table.fields, ","),
                     !.bety_csv_header =
                         Join(get_bety_traits_table(algorithm_lidar, namesR.list).fields, ","),
                     !.image_files =
                         filter_file_list_by_ext(list_files, supported_image_file_exts),
                     !.file_idx = 1,
                     !.num_image_files = 0,
                     !.entries_written = 0]
    /\ UNCHANGED <<list_files, run_env, validateVars, pureVars, configVars, writerVars>>

\* continue, or an exception caught at line 844: on to the next file
NextFile == [pp EXCEPT !.pc = "loop", !.file_idx = @ + 1, !.var_idx = 0, !.values = <<>>]

\* Mutant of PP_Capture: the try is around the loop, a failing file ends it
PP_Capture_AbortOnError ==
    /\ pp.pc = "loop"
    /\ pp.file_idx <= Len(pp.image_files)
    /\ \E nan_kind \in NanCentroidKinds :
          LET one_file == pp.image_files[pp.file_idx]
              counted == [pp EXCEPT !.num_image_files = @ + 1]
              centroid == get_centroid_latlon(one_file.georef, nan_kind)
              valuesR == validate_calc_value(one_file.calc, pp.variable_names)
          IN  pp' =
                IF one_file.calc.kind = "none" /\ centroid.status = "ok"
                THEN [counted EXCEPT !.pc = "loop", !.file_idx = @ + 1]
                ELSE IF centroid.status # "ok" \/ one_file.calc.kind = "raises"
                     \/ valuesR.status # "ok" \/ centroid.kind = "None"
                THEN [counted EXCEPT !.pc = "loop", !.file_idx = Len(pp.image_files) + 1]
                ELSE [counted EXCEPT !.pc = "geo", !.var_idx = 1, !.values = valuesR.values]
    /\ UNCHANGED <<list_files, run_env, validateVars, pureVars, configVars, writerVars>>

\* Lines 791-816: the next file is counted, its centroid and pixels are read,
\* the algorithm is called and its value validated; a None centroid fails at
\* centroid.GetY() (line 812); every exception goes to line 844
PP_Capture ==
    /\ pp.pc = "loop"
    /\ pp.file_idx <= Len(pp.image_files)
    /\ \E nan_kind \in NanCentroidKinds :
          LET one_file == pp.image_files[pp.file_idx]
              counted == [pp EXCEPT !.num_image_files = @ + 1]
              centroid == get_centroid_latlon(one_file.georef, nan_kind)
              valuesR == validate_calc_value(one_file.calc, pp.variable_names)
          IN  pp' =
                IF centroid.status # "ok" \/ one_file.calc.kind = "raises"
                     \/ one_file.calc.kind = "none" \/ valuesR.status # "ok"
                     \/ centroid.kind = "None"
                THEN [counted EXCEPT !.pc = "loop", !.file_idx = @ + 1]
                ELSE [counted EXCEPT !.pc = "geo", !.var_idx = 1, !.values = valuesR.values]
    /\ UNCHANGED <<list_files, run_env, validateVars, pureVars, configVars, writerVars>>

\* write_trait_csv(filename, header, fields, traits) enters write_csv_file
WriteTraitCsv(filename, header, csv_data) ==
    /\ writer' = [writer EXCEPT ![Runner] = EnterWrite(filename, header, csv_data)]
    /\ calls' = calls + 1
    /\ UNCHANGED <<files, open_faults, write_faults>>

\* Lines 819-829: one geostreams row per variable
PP_Geo ==
    /\ pp.pc = "geo"
    /\ IF pp.var_idx > Len(pp.variable_names)
       THEN /\ pp' = [pp EXCEPT !.pc = "csv"]
            /\ UNCHANGED writerVars
       ELSE IF pp.write_geostreams_csv
       THEN /\ pp' = [pp EXCEPT !.pc = "geo_wait"]
            /\ WriteTraitCsv(FILE_NAME_GEO_CSV, pp.geo_csv_header,
                   GeoRow(pp.image_files[pp.file_idx], pp.variable_names, pp.values,
                          pp.var_idx))
       ELSE /\ pp' = [pp EXCEPT !.var_idx = @ + 1]
            /\ UNCHANGED writerVars
    /\ UNCHANGED <<list_files, run_env, validateVars, pureVars, configVars>>

\* write_csv_file came back: its result is dropped by write_trait_csv, its
\* exception is caught at line 844
PP_GeoReturn ==
    /\ pp.pc = "geo_wait"
    /\ writer[Runner].pc = "done"
    /\ pp' = IF writer[Runner].ret = "raised" THEN NextFile
             ELSE [pp EXCEPT !.pc = "geo", !.var_idx = @ + 1]
    /\ UNCHANGED <<list_files, run_env, validateVars, pureVars, configVars, writerVars>>

\* Lines 831-835: the flat CSV row
PP_Csv ==
    /\ pp.pc = "csv"
    /\ pp' = [pp EXCEPT !.pc = "csv_wait"]
    /\ WriteTraitCsv(FILE_NAME_CSV, pp.csv_header,
           CsvRow(algorithm_lidar, pp.image_files[pp.file_idx], pp.variable_names,
                  pp.values))
    /\ UNCHANGED <<list_files, run_env, validateVars, pureVars, configVars>>

PP_CsvReturn ==
    /\ pp.pc = "csv_wait"
    /\ writer[Runner].pc = "done"
    /\ pp' = IF writer[Runner].ret = "raised" THEN NextFile
             ELSE [pp EXCEPT !.pc = "bety"]
    /\ UNCHANGED <<list_files, run_env, validateVars, pureVars, configVars, writerVars>>

\* Lines 837-842: the BETYdb row when it is wanted, then the entry is counted
PP_Bety ==
    /\ pp.pc = "bety"
    /\ IF pp.write_betydb_csv
       THEN /\ pp' = [pp EXCEPT !.pc = "bety_wait"]
            /\ WriteTraitCsv(FILE_NAME_BETYDB_CSV, pp.bety_csv_header,
                   BetyRow(algorithm_lidar, pp.image_files[pp.file_idx],
                           pp.variable_names, pp.values))
       ELSE /\ pp' = [NextFile EXCEPT !.entries_written = @ + 1]
            /\ UNCHANGED writerVars
    /\ UNCHANGED <<list_files, run_env, validateVars, pureVars, configVars>>

PP_BetyReturn ==
    /\ pp.pc = "bety_wait"
    /\ writer[Runner].pc = "done"
    /\ pp' = IF writer[Runner].ret = "raised" THEN NextFile
             ELSE [NextFile EXCEPT !.entries_written = @ + 1]
    /\ UNCHANGED <<list_files, run_env, validateVars, pureVars, configVars, writerVars>>

\* Lines 848-882: the result of the run
PP_Finish ==
    /\ pp.pc = "loop"
    /\ pp.file_idx > Len(pp.image_files)
    /\ pp' = [pp EXCEPT
                !.pc = "returned",
                !.result =
                    [code |-> 0,
                     files_processed |-> pp.num_image_files,
                     lines_written |-> pp.entries_written,
                     file |-> IF pp.entries_written # 0
                              THEN <<FILE_NAME_CSV>>
                                   \o (IF pp.write_geostreams_csv
                                       THEN <<FILE_NAME_GEO_CSV>> ELSE <<>>)
                                   \o (IF pp.write_betydb_csv
                                       THEN <<FILE_NAME_BETYDB_CSV>> ELSE <<>>)
                              ELSE <<>>]]
    /\ UNCHANGED <<list_files, run_env, validateVars, pureVars, configVars, writerVars>>

ProcessIdle ==
    /\ list_files = <<>>
    /\ run_env = [csv_dir_ok |-> TRUE, timestamp_ok |-> TRUE,
                  geostreams_csv |-> FALSE, betydb_csv |-> FALSE]
    /\ pp = IdleProcess

\* ------------------------------------------------------------------------
\* Calls of the functions that keep no state
\* ------------------------------------------------------------------------
\* get_open_backoff(prev): prev is None or an earlier result, in tenths of a
\* second up to MaxPrev; random() returns any of the thousandths below 1
BackoffPrevs == {BackoffNone} \cup 0..MaxPrev

AllMultipliers == 0..999

IdleBackoff == [pc |-> "idle", prev |-> BackoffNone, multiplier |-> 0, sleep |-> 0]

CallBackoff ==
    /\ backoff_call.pc = "call"
    /\ \E multiplier \in AllMultipliers :
          backoff_call' = [backoff_call EXCEPT
                              !.pc = "done", !.multiplier = multiplier,
                              !.sleep = get_open_backoff(backoff_call.prev, multiplier)]
    /\ UNCHANGED <<continue_call, centroid_call, trait_call, overlap_call, timestamp_call,
                   validateVars, configVars, writerVars, processVars>>

\* A path is a sequence of pieces, each a separator, a dot or a piece of a name
PathChars == {"/", ".", "tif", "f"}

Paths == SeqsUpTo(PathChars, MaxPathLen)

\* p.rfind(c), counted from 1, 0 when c is not in p
LastIndex(p, c) ==
    IF \E i \in DOMAIN p : p[i] = c
    THEN CHOOSE i \in DOMAIN p : p[i] = c /\ \A j \in DOMAIN p : p[j] = c => j <= i
    ELSE 0

\* os.path.splitext(p)[1]: from the last dot of the last component on, unless
\* only dots come before it in that component
splitext_ext(p) ==
    LET sepIndex == LastIndex(p, "/")
        dotIndex == LastIndex(p, ".")
    IN  IF dotIndex > sepIndex /\ \E i \in (sepIndex + 1)..(dotIndex - 1) : p[i] # "."
        THEN SubSeq(p, dotIndex, Len(p))
        ELSE <<>>

\* s.strip('.')
RECURSIVE StripDots(_)
StripDots(str) ==
    IF str = <<>> THEN <<>>
    ELSE IF Head(str) = "." THEN StripDots(Tail(str))
    ELSE IF str[Len(str)] = "." THEN StripDots(SubSeq(str, 1, Len(str) - 1))
    ELSE str

\* ext = os.path.splitext(one_file)[1].strip('.')
FileExt(p) == ToStr(StripDots(splitext_ext(p)))

\* The file of a path as the run sees it
FileOf(p) ==
    [path |-> ToStr(p), ext |-> FileExt(p), georef |-> GeoOk,
     calc |-> [kind |-> "int", val |-> <<5>>]]

\* The files of all the paths
PathFiles == {FileOf(p) : p \in Paths}

\* The other files of a list: one that is no image and one that is
OtherFiles == {FileOf(<<"f">>), FileOf(<<"f", ".", "tif">>)}

\* The lists of up to max_files files in which one file, at any place, has any
\* of the paths and the others are of OtherFiles
FileLists(max_files) ==
    {<<>>} \cup
    UNION {{[i \in 1..nk[1] |-> IF i = nk[2] THEN file ELSE others[i]] :
              file \in PathFiles, others \in [1..nk[1] -> OtherFiles]} :
           nk \in {pair \in (1..max_files) \X (1..max_files) : pair[2] <= pair[1]}}

ContinueResult(code, msg) == [code |-> code, msg |-> msg]

\* Mutant of check_continue: only the first file of the list is looked at
check_continue_FirstOnly(source_files, known_exts) ==
    IF source_files # <<>> /\ source_files[1].ext \in Range(known_exts)
    THEN ContinueResult(0, "")
    ELSE ContinueResult(-1000, "Unable to find an image in the list of files")

\* found_image is set by the first file whose extension is supported
\* (lines 727-737)
check_continue(source_files, known_exts) ==
    LET found_image ==
            \E i \in DOMAIN source_files : source_files[i].ext \in Range(known_exts)
    IN  IF found_image THEN ContinueResult(0, "")
        ELSE ContinueResult(-1000, "Unable to find an image in the list of files")

IdleContinue == [pc |-> "idle", result |-> ContinueResult(1, "")]

CallCheckContinue ==
    /\ continue_call.pc = "call"
    /\ continue_call' =
          [pc |-> "done", result |-> check_continue(list_files, supported_image_file_exts)]
    /\ UNCHANGED <<backoff_call, centroid_call, trait_call, overlap_call, timestamp_call,
                   validateVars, configVars, writerVars, processVars>>

\* The names get_default_trait is asked about, and the variable names an
\* algorithm may declare, some of them names of fixed fields
TraitNames ==
    {"canopy_cover", "site", "access_level", "species", "local_datetime",
     "citation_author", "citation_year", "citation_title", "method", "germplasmName",
     "lat", "a", ""}

VariableNames == {<<"a">>, <<"site">>, <<"method">>}

NoTable == [fields |-> <<>>, traits |-> <<>>]

IdleTrait ==
    [pc |-> "idle", trait_name |-> "", value |-> PyNone,
     tables_pc |-> "idle", names |-> <<>>, csv |-> NoTable, bety |-> NoTable]

CallDefaultTrait ==
    /\ trait_call.pc = "call"
    /\ trait_call' = [trait_call EXCEPT
                         !.pc = "done", !.value = get_default_trait(trait_call.trait_name)]
    /\ UNCHANGED <<backoff_call, continue_call, centroid_call, overlap_call, timestamp_call,
                   validateVars, configVars, writerVars, processVars>>

\* get_csv_traits_table(variable_names) and get_bety_traits_table(variable_names)
CallTraitsTables ==
    /\ trait_call.tables_pc = "call"
    /\ trait_call' = [trait_call EXCEPT
                         !.tables_pc = "done",
                         !.csv = get_csv_traits_table(algorithm_lidar, trait_call.names),
                         !.bety = get_bety_traits_table(algorithm_lidar, trait_call.names)]
    /\ UNCHANGED <<backoff_call, continue_call, centroid_call, overlap_call, timestamp_call,
                   validateVars, configVars, writerVars, processVars>>

\* The overlap of a plot with a capture, in millionths of the plot's area, and
\* the fraction from which the pair is admitted (0.10)
OVERLAP_THRESHOLD == 100000

OverlapStep == 12500

OverlapFractions ==
    {k * OverlapStep : k \in 0..(1000000 \div OverlapStep)} \cup {99999, 100001}

\* Mutant of overlap_admitted: a pair at exactly the threshold is left out
overlap_admitted_Above(fraction) == fraction > OVERLAP_THRESHOLD

overlap_admitted(fraction) == fraction >= OVERLAP_THRESHOLD

IdleOverlap ==
    [pc |-> "idle", fraction |-> 0, admitted |-> FALSE, clipped |-> FALSE,
     calculated |-> FALSE, rows |-> 0, logged |-> "", error |-> ""]

\* ADMIT?: the pair goes on to the clip or is skipped and logged
OverlapAdmit ==
    /\ overlap_call.pc = "admit"
    /\ overlap_call' =
          IF overlap_admitted(overlap_call.fraction)
          THEN [overlap_call EXCEPT !.admitted = TRUE, !.pc = "clip"]
          ELSE [overlap_call EXCEPT !.logged = "skipped", !.pc = "done"]
    /\ UNCHANGED <<backoff_call, continue_call, centroid_call, trait_call, timestamp_call,
                   validateVars, configVars, writerVars, processVars>>

\* CLIP: the capture is cropped to the plot, or the clip fails and the plot is
\* skipped and logged
OverlapClip ==
    /\ overlap_call.pc = "clip"
    /\ \/ overlap_call' = [overlap_call EXCEPT !.clipped = TRUE, !.pc = "calculate"]
       \/ overlap_call' = [overlap_call EXCEPT !.error = "ClipError",
                                               !.logged = "clip failed", !.pc = "done"]
    /\ UNCHANGED <<backoff_call, continue_call, centroid_call, trait_call, timestamp_call,
                   validateVars, configVars, writerVars, processVars>>

\* CALCULATE, VALIDATE and WRITE: the row of the pair
OverlapWrite ==
    /\ overlap_call.pc = "calculate"
    /\ overlap_call' = [overlap_call EXCEPT !.calculated = TRUE, !.rows = @ + 1,
                                            !.pc = "done"]
    /\ UNCHANGED <<backoff_call, continue_call, centroid_call, trait_call, timestamp_call,
                   validateVars, configVars, writerVars, processVars>>

\* A metadata dictionary as far as get_metadata_timestamp reads it: a key
\* that is missing, or the value stored under it
MdMissing == [type |-> "missing", s |-> ""]

TimestampValues == {PyStr("2020-01-31T10:00:00-07:00"), PyNone}

\* check_md: its 'timestamp' entry, whether it has a
\* 'gantry_variable_metadata' entry and that entry's 'datetime'
Md(timestamp, has_gantry, datetime) ==
    [timestamp |-> timestamp, has_gantry |-> has_gantry, datetime |-> datetime]

EmptyMd == Md(MdMissing, FALSE, MdMissing)

Mds ==
    {Md(timestamp, FALSE, MdMissing) : timestamp \in TimestampValues \cup {MdMissing}}
    \cup {Md(timestamp, TRUE, datetime) :
             timestamp \in TimestampValues \cup {MdMissing},
             datetime \in {PyStr("2019-06-12T08:30:00-07:00"), MdMissing}}

\* metadata: its own entries and, when it has the key, its 'content'
Metadatas ==
    {[has_content |-> FALSE, top |-> top, content |-> EmptyMd] : top \in Mds}
    \cup {[has_content |-> TRUE, top |-> top, content |-> content] :
             top \in Mds, content \in Mds}

get_metadata_timestamp(metadata) ==
    LET check_md == IF metadata.has_content THEN metadata.content ELSE metadata.top
    IN  IF check_md.timestamp # MdMissing
        THEN check_md.timestamp
        ELSE IF check_md.has_gantry /\ check_md.datetime # MdMissing
             THEN check_md.datetime
             ELSE PyNone

IdleTimestamp ==
    [pc |-> "idle", metadata |-> [has_content |-> FALSE, top |-> EmptyMd, content |-> EmptyMd],
     result |-> MdMissing]

CallMetadataTimestamp ==
    /\ timestamp_call.pc = "call"
    /\ timestamp_call' =
          [timestamp_call EXCEPT !.pc = "done",
                                 !.result = get_metadata_timestamp(timestamp_call.metadata)]
    /\ UNCHANGED <<backoff_call, continue_call, centroid_call, trait_call, overlap_call,
                   validateVars, configVars, writerVars, processVars>>

PureIdle ==
    /\ timestamp_call = IdleTimestamp
    /\ overlap_call = IdleOverlap
    /\ trait_call = IdleTrait
    /\ backoff_call = IdleBackoff
    /\ continue_call = IdleContinue
    /\ centroid_call = IdleCentroid

\* ------------------------------------------------------------------------
\* Specifications
\* ------------------------------------------------------------------------
\* One process calls write_csv_file up to MaxCalls times, on a file that is
\* absent or holds the lines of earlier runs; any open() and one write() may fail
InitWrite ==
    /\ \E old \in {NoFile, [exists |-> TRUE, lines |-> <<>>],
                    [exists |-> TRUE, lines |-> <<"site,trait", "row0">>]} :
          files = [f \in CsvFiles |-> IF f = FILE_NAME_CSV THEN old ELSE NoFile]
    /\ writer = [p \in Procs |-> IdleWriter]
    /\ open_faults = MAX_CSV_FILE_OPEN_TRIES
    /\ write_faults \in {0, 1}
    /\ calls = 0
    /\ ValidateIdle
    /\ ConfigIdle
    /\ ProcessIdle
    /\ PureIdle

NextWrite ==
    \/ CallWrite("w1")
    \/ W_Check("w1") \/ W_OpenOk("w1") \/ W_OpenFails("w1") \/ W_Sleep("w1")
    \/ W_Header("w1") \/ W_Data("w1") \/ W_Close("w1")

SpecWrite == InitWrite /\ [][NextWrite]_vars

\* Launches one after the other, each appending a row to a file that is absent
\* or empty at the start; some open() and one write() may fail
InitSequence ==
    /\ \E old \in {NoFile, [exists |-> TRUE, lines |-> <<>>]} :
          files = [f \in CsvFiles |-> IF f = FILE_NAME_CSV THEN old ELSE NoFile]
    /\ writer = [p \in Procs |-> IdleWriter]
    /\ open_faults = 3
    /\ write_faults = 1
    /\ calls = 0
    /\ ValidateIdle
    /\ ConfigIdle
    /\ ProcessIdle
    /\ PureIdle

NextSequence ==
    \/ CallAppend("w1")
    \/ W_Check("w1") \/ W_OpenOk("w1") \/ W_OpenFails("w1") \/ W_Sleep("w1")
    \/ W_Header("w1") \/ W_Data("w1") \/ W_Close("w1")

SpecSequence == InitSequence /\ [][NextSequence]_vars

\* Independent processes, each launched to append rows to the same file, which
\* is absent or empty at the start; their steps interleave in any order
InitConcurrent ==
    /\ \E old \in {NoFile, [exists |-> TRUE, lines |-> <<>>]} :
          files = [f \in CsvFiles |-> IF f = FILE_NAME_CSV THEN old ELSE NoFile]
    /\ writer = [p \in Procs |-> IdleWriter]
    /\ open_faults \in {0, 1}
    /\ write_faults \in {0, 1}
    /\ calls = 0
    /\ ValidateIdle
    /\ ConfigIdle
    /\ ProcessIdle
    /\ PureIdle

NextConcurrent ==
    \E p \in Procs :
        \/ CallAppend(p)
        \/ W_Check(p) \/ W_OpenOk(p) \/ W_OpenFails(p) \/ W_Sleep(p)
        \/ W_Header(p) \/ W_Data(p) \/ W_Close(p)

SpecConcurrent == InitConcurrent /\ [][NextConcurrent]_vars

\* get_open_backoff on its own, for every prev and every random number, next to
\* the calls of write_csv_file that use it
InitBackoff ==
    \/ InitWrite
    \/ /\ backoff_call \in {[IdleBackoff EXCEPT !.pc = "call", !.prev = prev] :
                               prev \in BackoffPrevs}
       /\ continue_call = IdleContinue
       /\ centroid_call = IdleCentroid
       /\ trait_call = IdleTrait
       /\ overlap_call = IdleOverlap
       /\ timestamp_call = IdleTimestamp
       /\ ValidateIdle
       /\ ConfigIdle
       /\ WriterIdle
       /\ ProcessIdle

NextBackoff ==
    \/ CallBackoff
    \/ backoff_call.pc = "idle" /\ NextWrite

SpecBackoff == InitBackoff /\ [][NextBackoff]_vars

\* check_continue on every list of files
InitContinue ==
    /\ list_files \in FileLists(MaxFiles)
    /\ run_env = [csv_dir_ok |-> TRUE, timestamp_ok |-> TRUE,
                  geostreams_csv |-> FALSE, betydb_csv |-> FALSE]
    /\ pp = IdleProcess
    /\ continue_call = [IdleContinue EXCEPT !.pc = "call"]
    /\ backoff_call = IdleBackoff
    /\ centroid_call = IdleCentroid
    /\ trait_call = IdleTrait
    /\ overlap_call = IdleOverlap
    /\ timestamp_call = IdleTimestamp
    /\ ValidateIdle
    /\ ConfigIdle
    /\ WriterIdle

NextContinue == CallCheckContinue

SpecContinue == InitContinue /\ [][NextContinue]_vars

\* get_centroid_latlon on every georeference
InitCentroid ==
    /\ centroid_call \in {[IdleCentroid EXCEPT !.pc = "call", !.file = g] : g \in GeoRefs}
    /\ backoff_call = IdleBackoff
    /\ continue_call = IdleContinue
    /\ trait_call = IdleTrait
    /\ overlap_call = IdleOverlap
    /\ timestamp_call = IdleTimestamp
    /\ ValidateIdle
    /\ ConfigIdle
    /\ WriterIdle
    /\ ProcessIdle

NextCentroid == CallCentroid

SpecCentroid == InitCentroid /\ [][NextCentroid]_vars

\* get_default_trait on every name, and the trait tables for every list of
\* variable names and every declaration of the citation and the method
CitationDecls == {Absent, DeclStr(<<>>), DeclStr(<<"a">>)}

InitTraits ==
    /\ \E author \in CitationDecls, title \in CitationDecls, year \in CitationDecls,
          method \in CitationDecls :
          algorithm_lidar = [a \in AttrNames |->
              CASE a = "CITATION_AUTHOR" -> author
                [] a = "CITATION_TITLE" -> title
                [] a = "CITATION_YEAR" -> year
                [] a = "ALGORITHM_METHOD" -> method
                [] OTHER -> Absent]
    /\ def_name = "VARIABLE_NAMES"
    /\ def_default = Decl("bool", FALSE, <<>>)
    /\ def_pc = "idle"
    /\ def_result = NoLookup
    /\ trait_call \in {[IdleTrait EXCEPT !.pc = "call", !.trait_name = trait_name,
                                           !.tables_pc = "call", !.names = names] :
                           trait_name \in TraitNames,
                           names \in SeqsUpTo(VariableNames, MaxNames)}
    /\ backoff_call = IdleBackoff
    /\ continue_call = IdleContinue
    /\ centroid_call = IdleCentroid
    /\ overlap_call = IdleOverlap
    /\ timestamp_call = IdleTimestamp
    /\ ValidateIdle
    /\ WriterIdle
    /\ ProcessIdle

NextTraits == CallDefaultTrait \/ CallTraitsTables

SpecTraits == InitTraits /\ [][NextTraits]_vars

\* One (capture, plot) pair for every overlap fraction
InitOverlap ==
    /\ overlap_call \in {[IdleOverlap EXCEPT !.pc = "admit", !.fraction = fraction] :
                             fraction \in OverlapFractions}
    /\ backoff_call = IdleBackoff
    /\ continue_call = IdleContinue
    /\ centroid_call = IdleCentroid
    /\ trait_call = IdleTrait
    /\ timestamp_call = IdleTimestamp
    /\ ValidateIdle
    /\ ConfigIdle
    /\ WriterIdle
    /\ ProcessIdle

NextOverlap == OverlapAdmit \/ OverlapClip \/ OverlapWrite

SpecOverlap == InitOverlap /\ [][NextOverlap]_vars

\* One call of get_metadata_timestamp for every metadata dictionary
InitTimestamp ==
    /\ timestamp_call \in {[IdleTimestamp EXCEPT !.pc = "call", !.metadata = metadata] :
                               metadata \in Metadatas}
    /\ backoff_call = IdleBackoff
    /\ continue_call = IdleContinue
    /\ centroid_call = IdleCentroid
    /\ trait_call = IdleTrait
    /\ overlap_call = IdleOverlap
    /\ ValidateIdle
    /\ ConfigIdle
    /\ WriterIdle
    /\ ProcessIdle

NextTimestamp == CallMetadataTimestamp

SpecTimestamp == InitTimestamp /\ [][NextTimestamp]_vars

InitValidateVars ==
    /\ calc_value \in CalcValues
    /\ variable_names \in NameLists
    /\ vcv_pc = "call"
    /\ vcv_result = NoResult

InitValidate == InitValidateVars /\ ConfigIdle /\ WriterIdle /\ ProcessIdle /\ PureIdle

NextValidate == CallValidate

SpecValidate == InitValidate /\ [][NextValidate]_vars

\* The lookups by name: one declaration of the module is set, and a name is
\* looked up that is this one or another, with a bool and a str default
LookupNames == {"WRITE_GEOSTREAMS_CSV", "VERSION"}

InitDefinition ==
    /\ \E declared \in LookupNames, decl \in DeclValues(MaxStrLen) :
          algorithm_lidar = [a \in AttrNames |-> IF a = declared THEN decl ELSE Absent]
    /\ def_name \in LookupNames
    /\ def_default \in {Decl("bool", b, str) : b \in BOOLEAN, str \in {<<>>, <<"a">>}}
    /\ def_pc = "call"
    /\ def_result = NoLookup
    /\ ValidateIdle
    /\ WriterIdle
    /\ ProcessIdle
    /\ PureIdle

NextDefinition == CallDefinitionBool \/ CallDefinitionStr \/ CallVariableList

SpecDefinition == InitDefinition /\ [][NextDefinition]_vars

\* The header: the three declarations it reads are set
LabelDecls == {Absent, DeclNone} \cup {DeclStr(str) : str \in Strings(MaxLabelLen)}

InitHeader ==
    /\ \E names \in {Absent} \cup {DeclStr(str) : str \in Strings(MaxStrLen)},
          units \in DeclValues(MaxStrLen), labels \in LabelDecls :
          algorithm_lidar = [a \in AttrNames |->
              CASE a = "VARIABLE_NAMES" -> names
                [] a = "VARIABLE_UNITS" -> units
                [] a = "VARIABLE_LABELS" -> labels
                [] OTHER -> Absent]
    /\ def_name = "VARIABLE_NAMES"
    /\ def_default = Decl("bool", FALSE, <<>>)
    /\ def_pc = "call"
    /\ def_result = NoLookup
    /\ ValidateIdle
    /\ WriterIdle
    /\ ProcessIdle
    /\ PureIdle

NextHeader == CallHeaderFields

SpecHeader == InitHeader /\ [][NextHeader]_vars

\* One run of perform_process over a fixed list of files, for every
\* declaration of VARIABLE_NAMES; the CSV file is absent or left by an earlier
\* run, and one open() and one write() may fail
Capture(path, ext, georef, calc) ==
    [path |-> path, ext |-> ext, georef |-> georef, calc |-> calc]

ConfigRunFiles ==
    << Capture("c1.tif", "tif", GeoOk, [kind |-> "int", val |-> <<5>>]),
       Capture("notes.txt", "txt", GeoOk, [kind |-> "none", val |-> <<0>>]),
       Capture("c2.tif", "tif", GeoOk, [kind |-> "dict", val |-> << <<<<"a">>, 3>> >>]) >>

InitConfigRun ==
    /\ \E calculate \in {Absent, DeclFunction},
          names \in {Absent} \cup {DeclStr(str) : str \in Strings(MaxStrLen)},
          units \in {Absent, DeclStr(<<"a">>)} :
          algorithm_lidar = [a \in AttrNames |->
              CASE a = "calculate" -> calculate
                [] a = "VARIABLE_NAMES" -> names
                [] a = "VARIABLE_UNITS" -> units
                [] OTHER -> Absent]
    /\ def_name = "VARIABLE_NAMES"
    /\ def_default = Decl("bool", FALSE, <<>>)
    /\ def_pc = "idle"
    /\ def_result = NoLookup
    /\ ValidateIdle
    /\ \E old \in {NoFile, [exists |-> TRUE, lines |-> <<"site,trait", "row0">>]} :
          files = [f \in CsvFiles |-> IF f = FILE_NAME_CSV THEN old ELSE NoFile]
    /\ writer = [p \in Procs |-> IdleWriter]
    /\ open_faults \in {0, 1}
    /\ write_faults \in {0, 1}
    /\ calls = 0
    /\ list_files = ConfigRunFiles
    /\ run_env = [csv_dir_ok |-> TRUE, timestamp_ok |-> TRUE,
                  geostreams_csv |-> FALSE, betydb_csv |-> FALSE]
    /\ pp = [IdleProcess EXCEPT !.pc = "start"]
    /\ PureIdle

NextRun ==
    \/ PP_Setup \/ PP_Capture \/ PP_Geo \/ PP_GeoReturn \/ PP_Csv \/ PP_CsvReturn
    \/ PP_Bety \/ PP_BetyReturn \/ PP_Finish
    \/ W_Check(Runner) \/ W_OpenOk(Runner) \/ W_OpenFails(Runner) \/ W_Sleep(Runner)
    \/ W_Header(Runner) \/ W_Data(Runner) \/ W_Close(Runner)

SpecConfigRun == InitConfigRun /\ [][NextRun]_vars

\* The kinds of file a run may be given: an image that calculates, one without
\* an EPSG code, one whose bounds cannot be read, one on which calculate()
\* raises, returns None, a set or a mapping without the expected name, and a
\* file that is no image
CaptureKinds ==
    { [ext |-> "tif", georef |-> GeoOk, calc |-> [kind |-> "int", val |-> <<5>>]],
      [ext |-> "tif", georef |-> [GeoOk EXCEPT !.epsg = "None"],
       calc |-> [kind |-> "int", val |-> <<5>>]],
      [ext |-> "tif", georef |-> [GeoOk EXCEPT !.readable = FALSE],
       calc |-> [kind |-> "int", val |-> <<5>>]],
      [ext |-> "tif", georef |-> GeoOk, calc |-> [kind |-> "raises", val |-> <<0>>]],
      [ext |-> "tif", georef |-> GeoOk, calc |-> [kind |-> "none", val |-> <<0>>]],
      [ext |-> "tif", georef |-> GeoOk, calc |-> [kind |-> "set", val |-> <<3>>]],
      [ext |-> "txt", georef |-> GeoOk, calc |-> [kind |-> "int", val |-> <<5>>]] }

\* The lists of up to MaxFiles files, the i-th named after its place
RunFileLists ==
    UNION {{[i \in 1..n |->
                Capture("c" \o ToString(i) \o "." \o kinds[i].ext, kinds[i].ext,
                        kinds[i].georef, kinds[i].calc)] :
            kinds \in [1..n -> CaptureKinds]} : n \in 0..MaxFiles}

\* One run of perform_process for every list of files, with the declarations
\* and the arguments of the run present or not; the CSV files are absent, and
\* one open() and one write() may fail
InitRun ==
    /\ \E calculate \in {Absent, DeclFunction},
          names \in {Absent, DeclStr(<<"a">>)},
          units \in {Absent, DeclStr(<<"a">>)} :
          algorithm_lidar = [a \in AttrNames |->
              CASE a = "calculate" -> calculate
                [] a = "VARIABLE_NAMES" -> names
                [] a = "VARIABLE_UNITS" -> units
                [] OTHER -> Absent]
    /\ def_name = "VARIABLE_NAMES"
    /\ def_default = Decl("bool", FALSE, <<>>)
    /\ def_pc = "idle"
    /\ def_result = NoLookup
    /\ ValidateIdle
    /\ files = [f \in CsvFiles |-> NoFile]
    /\ writer = [p \in Procs |-> IdleWriter]
    /\ open_faults = 1
    /\ write_faults = 1
    /\ calls = 0
    /\ list_files \in RunFileLists
    /\ \E csv_dir_ok \in BOOLEAN, timestamp_ok \in BOOLEAN :
          run_env = [csv_dir_ok |-> csv_dir_ok, timestamp_ok |-> timestamp_ok,
                     geostreams_csv |-> FALSE, betydb_csv |-> FALSE]
    /\ pp = [IdleProcess EXCEPT !.pc = "start"]
    /\ PureIdle

SpecRun == InitRun /\ [][NextRun]_vars

\* calculate() returns a mapping that names the variables in another order
\* than VARIABLE_NAMES
TwoValues(first, second) ==
    [kind |-> "dict", val |-> << <<<<"b">>, second>>, <<<<"a">>, first>> >>]

StatisticsFileLists ==
    { << Capture("c1.tif", "tif", GeoOk, TwoValues(3, 4)) >>,
      << Capture("c1.tif", "tif", GeoOk, TwoValues(3, 4)),
         Capture("c2.tif", "tif", GeoOk, TwoValues(5, 6)) >>,
      << Capture("c1.tif", "tif", GeoOk, [kind |-> "none", val |-> <<0>>]),
         Capture("c2.tif", "tif", GeoOk, TwoValues(5, 6)) >> }

\* One run of perform_process with two variables declared; the CSV files are
\* absent, open() may fail as often as write_csv_file tries it for one file and
\* one write() may fail
InitStatistics ==
    /\ algorithm_lidar = [a \in AttrNames |->
          CASE a = "calculate" -> DeclFunction
            [] a = "VARIABLE_NAMES" -> DeclStr(<<"a", ",", "b">>)
            [] a = "VARIABLE_UNITS" -> DeclStr(<<"a", ",", "b">>)
            [] OTHER -> Absent]
    /\ def_name = "VARIABLE_NAMES"
    /\ def_default = Decl("bool", FALSE, <<>>)
    /\ def_pc = "idle"
    /\ def_result = NoLookup
    /\ ValidateIdle
    /\ files = [f \in CsvFiles |-> NoFile]
    /\ writer = [p \in Procs |-> IdleWriter]
    /\ open_faults \in {0, MAX_CSV_FILE_OPEN_TRIES}
    /\ write_faults \in {0, 1}
    /\ calls = 0
    /\ list_files \in StatisticsFileLists
    /\ run_env = [csv_dir_ok |-> TRUE, timestamp_ok |-> TRUE,
                  geostreams_csv |-> FALSE, betydb_csv |-> FALSE]
    /\ pp = [IdleProcess EXCEPT !.pc = "start"]
    /\ PureIdle

SpecStatistics == InitStatistics /\ [][NextRun]_vars

\* ------------------------------------------------------------------------
\* Properties of validate_calc_value (checked under SpecValidate)
\* ------------------------------------------------------------------------
KeySet(d) == {d[i][1] : i \in DOMAIN d}

IsScalar(cv) == cv.kind \notin {"dict", "set", "list", "tuple"}

ArityError(r) == r.status = "RuntimeError" /\ r.msg = "incorrect number of values"

UnsupportedTypeError(r) == r.status = "RuntimeError" /\ r.msg = "unsupported type"

\* C1: a mapping whose keys are exactly the expected names is accepted, and the
\* i-th returned value is the one the mapping pairs with the i-th expected
\* name, whatever the order of the mapping's own items.
C1_MappingInNamesOrder ==
    (vcv_pc = "done" /\ calc_value.kind = "dict"
        /\ KeySet(calc_value.val) = Range(variable_names))
    => /\ vcv_result.status = "ok"
       /\ Len(vcv_result.values) = Len(variable_names)
       /\ \A i \in DOMAIN variable_names :
             \E j \in DOMAIN calc_value.val :
                calc_value.val[j] = <<variable_names[i], vcv_result.values[i]>>

\* names 'height,width' with {'width': 3, 'height': 5} gave [5, 3]
C1_Witness ==
    /\ vcv_pc = "done"
    /\ variable_names = <<"height", "width">>
    /\ calc_value = [kind |-> "dict", val |-> <<<<"width", 3>>, <<"height", 5>>>>]
    /\ vcv_result = Returned(<<5, 3>>)

\* C2: a list or tuple with as many elements as there are expected names is
\* accepted and returned element for element.
C2_SequenceUsedAsIs ==
    (vcv_pc = "done" /\ calc_value.kind \in {"list", "tuple"}
        /\ Len(calc_value.val) = Len(variable_names))
    => vcv_result = Returned(calc_value.val)

\* C3: a scalar is accepted, as the one-element list holding it, exactly when
\* one name is expected; otherwise the call fails with the arity error.
C3_ScalarArity ==
    (vcv_pc = "done" /\ IsScalar(calc_value))
    => /\ (Len(variable_names) = 1) <=> (vcv_result.status = "ok")
       /\ vcv_result.status = "ok" => vcv_result.values = <<calc_value.val[1]>>
       /\ Len(variable_names) # 1 => ArityError(vcv_result)

C3_Witness ==
    /\ vcv_pc = "done"
    /\ IsScalar(calc_value)
    /\ variable_names = <<"height">>
    /\ vcv_result = Returned(<<5>>)

\* C4: a set is always rejected with the unsupported-type error, whatever its
\* elements and whatever the expected names.
C4_SetRejected ==
    (vcv_pc = "done" /\ calc_value.kind = "set") => UnsupportedTypeError(vcv_result)

C4_Witness ==
    /\ vcv_pc = "done"
    /\ calc_value.kind = "set"
    /\ Len(calc_value.val) = 1
    /\ Len(variable_names) = 1
    /\ UnsupportedTypeError(vcv_result)

\* The number of values the algorithm returned: the entries of a mapping, the
\* elements of a list, tuple or set, 1 for a scalar
InputCount(cv) == IF IsScalar(cv) THEN 1 ELSE Len(cv.val)

CoveredNames(cv, names) == {i \in DOMAIN names : names[i] \in KeySet(cv.val)}

C6_DefinitionOrDefault ==
    LET decl == algorithm_lidar[def_name]
    IN  /\ (def_pc = "done" /\ def_result.op = "bool")
            => def_result.b = (IF decl.type = "bool" THEN decl.b ELSE def_default.b)
        /\ (def_pc = "done" /\ def_result.op = "str")
            => def_result.s = (IF decl.type = "str" /\ Strip(decl.s) # <<>>
                               THEN Strip(decl.s) ELSE def_default.s)

\* The list a declaration stands for when absent or empty count as no entries
DeclaredList(decl) ==
    IF decl.type = "str" /\ Strip(decl.s) # <<>> THEN Split(Strip(decl.s)) ELSE <<>>

\* C8: with VARIABLE_UNITS and VARIABLE_LABELS absent, empty or shorter than the
\* names, get_csv_header_fields does not raise and returns the fixed fields
\* followed by one entry per variable, a missing label or unit adding no suffix.
C8_HeaderToleratesShortLists ==
    LET names == DeclaredList(algorithm_lidar["VARIABLE_NAMES"])
        units == DeclaredList(algorithm_lidar["VARIABLE_UNITS"])
        labels == DeclaredList(algorithm_lidar["VARIABLE_LABELS"])
    IN  (/\ def_pc = "done" /\ def_result.op = "header"
         /\ names # <<>>
         /\ algorithm_lidar["VARIABLE_UNITS"].type \in {"absent", "str"}
         /\ algorithm_lidar["VARIABLE_LABELS"].type \in {"absent", "str"}
         /\ Len(units) <= Len(names) /\ Len(labels) <= Len(names)
         /\ (Len(units) < Len(names) \/ Len(labels) < Len(names)))
        => /\ def_result.status = "ok"
           /\ Len(def_result.list) = Len(CSV_TRAIT_NAMES) + Len(names)
           /\ \A idx \in DOMAIN names :
                 def_result.list[Len(CSV_TRAIT_NAMES) + idx]
                    = names[idx]
                      \o (IF idx <= Len(labels) THEN <<" ">> \o labels[idx] ELSE <<>>)
                      \o (IF idx <= Len(units)
                          THEN <<" ", "(">> \o units[idx] \o <<")">> ELSE <<>>)

\* ------------------------------------------------------------------------
\* Properties of write_csv_file (SpecWrite)
\* ------------------------------------------------------------------------
BadArgs(w) == Falsy(w.filename) \/ Falsy(w.data)

\* C9: a call with an empty or None filename or data returns False at once: no
\* open was attempted, nothing was slept, no file was created or changed.
C9_FailFast ==
    [][\A p \in Procs :
          (writer[p].pc = "check" /\ BadArgs(writer[p]) /\ writer'[p] # writer[p])
          => /\ writer'[p].pc = "done"
             /\ writer'[p].ret = "False"
             /\ writer'[p].opens = 0
             /\ writer'[p].sleeps = 0
             /\ writer'[p].csv_file = "None"
             /\ files' = files]_vars

\* a call with a filename but empty data returned False and the file is
\* still absent
C9_Witness ==
    /\ writer["w1"].pc = "done"
    /\ writer["w1"].filename = FILE_NAME_CSV
    /\ writer["w1"].data = ""
    /\ writer["w1"].ret = "False"
    /\ ~files[FILE_NAME_CSV].exists

\* What is left of the open loop: decreases with every attempt and every sleep
LoopMeasure(w) ==
    2 * (MAX_CSV_FILE_OPEN_TRIES - w.opens) + (IF w.pc = "sleep" THEN 1 ELSE 0)

\* C10: at most 10 open attempts; a sleep follows every failed attempt but the
\* 10th, so a successful k-th attempt has k-1 sleeps before it and no attempt
\* after it; after 10 failures there were 9 sleeps, nothing was written and
\* False is returned; every step of the loop brings it nearer to its end.
C10_OpenRetry ==
    /\ [](\A p \in Procs :
            LET w == writer[p]
            IN  /\ w.opens <= MAX_CSV_FILE_OPEN_TRIES
                /\ w.pc = "open" => w.sleeps = w.opens
                /\ w.pc = "sleep" =>
                      w.sleeps = w.opens - 1 /\ w.opens < MAX_CSV_FILE_OPEN_TRIES
                /\ w.csv_file # "None" =>
                      /\ w.opens \in 1..MAX_CSV_FILE_OPEN_TRIES
                      /\ w.sleeps = w.opens - 1
                      /\ w.pc \notin {"open", "sleep"}
                /\ (w.pc = "done" /\ ~BadArgs(w) /\ w.csv_file = "None") =>
                      /\ w.ret = "False"
                      /\ w.opens = MAX_CSV_FILE_OPEN_TRIES
                      /\ w.sleeps = MAX_CSV_FILE_OPEN_TRIES - 1
                      /\ w.buffer = <<>>)
    /\ [][\A p \in Procs :
            (writer[p].pc \in {"open", "sleep"} /\ writer'[p] # writer[p])
            => /\ LoopMeasure(writer'[p]) < LoopMeasure(writer[p])
               /\ LoopMeasure(writer'[p]) >= 0
               /\ writer'[p].csv_file = "None" => files' = files]_vars

\* a call whose open succeeded at the third attempt, after two sleeps
C10_Witness ==
    /\ writer["w1"].pc = "done"
    /\ writer["w1"].ret = "True"
    /\ writer["w1"].opens = 3
    /\ writer["w1"].sleeps = 2

\* a call whose 10 attempts all failed
C10_WitnessExhausted ==
    /\ writer["w1"].pc = "done"
    /\ ~BadArgs(writer["w1"])
    /\ writer["w1"].ret = "False"
    /\ writer["w1"].opens = MAX_CSV_FILE_OPEN_TRIES
    /\ writer["w1"].sleeps = MAX_CSV_FILE_OPEN_TRIES - 1

\* C12: from an absent or empty file, after N >= 1 successful calls made one
\* after the other with the same non-empty header, the file holds the header
\* once, as its first line, and then the N data lines in the order of the calls.
C12_SequentialHeaderOnce ==
    /\ []((write_faults = 1 /\ writer["w1"].pc \in {"idle", "done"}) =>
            LET lines == files[FILE_NAME_CSV].lines
            IN  IF calls = 0 THEN lines = <<>>
                ELSE /\ writer["w1"].ret = "True"
                     /\ Len(lines) = calls + 1
                     /\ lines[1] = AppendHeader
                     /\ \A i \in 2..Len(lines) : lines[i] \in AppendRows
                     /\ lines[Len(lines)] = writer["w1"].data)
    /\ [][(write_faults' = 1 /\ files' # files /\ files[FILE_NAME_CSV].lines # <<>>)
            => files'[FILE_NAME_CSV].lines
                  = Append(files[FILE_NAME_CSV].lines, writer["w1"].data)]_vars

\* two launches left the header and their two rows
C12_Witness ==
    /\ writer["w1"].pc = "done"
    /\ calls = 2
    /\ write_faults = 1
    /\ files[FILE_NAME_CSV].lines = <<AppendHeader, "row2", "row1">>

\* C14: on every way out of write_csv_file after a successful open (normal end,
\* failed header write, failed data write) the file was closed before the call
\* returned or raised, and a failed write is raised to the caller, never
\* turned into a False result.
C14_CloseAndReraise ==
    /\ [](\A p \in Procs :
            LET w == writer[p]
            IN  /\ w.csv_file = "open" => w.pc \in {"header", "data", "close"}
                /\ (w.pc = "done" /\ w.opens > 0 /\ w.csv_file # "None") =>
                      /\ w.csv_file = "closed"
                      /\ w.buffer = <<>>
                      /\ w.exc # "" <=> w.ret = "raised"
                      /\ w.exc = "" <=> w.ret = "True")
    /\ [][\A p \in Procs :
            (writer[p].exc = "" /\ writer'[p].exc # "")
            => /\ writer[p].pc \in {"header", "data"}
               /\ writer'[p].pc = "close"
               /\ writer'[p].csv_file = "open"]_vars

\* the data write failed after the header was buffered: the file was closed,
\* which wrote the header out, and the error was raised
C14_Witness ==
    /\ writer["w1"].pc = "done"
    /\ writer["w1"].exc = "OSError"
    /\ writer["w1"].ret = "raised"
    /\ writer["w1"].csv_file = "closed"
    /\ files[FILE_NAME_CSV].lines = <<"site,trait">>

\* The lines of the file that are the header
HeaderLines(f) == {i \in DOMAIN files[f].lines : files[f].lines[i] = AppendHeader}

\* C13: whatever the interleaving of the calls of several processes on a file
\* that was absent or empty, the header is in the file exactly once (and first)
\* as soon as the file has a line.
C13_HeaderOnceConcurrent ==
    files[FILE_NAME_CSV].lines # <<>> => HeaderLines(FILE_NAME_CSV) = {1}

\* ------------------------------------------------------------------------
\* Properties of get_open_backoff (SpecBackoff)
\* ------------------------------------------------------------------------
\* C11: get_open_backoff(None) is exactly 1 second, so the first sleep of a
\* write_csv_file call is 1 second; for every prev >= 0 and every random
\* number below 1 the result is at most MAX_FILE_OPEN_SLEEP_SEC, so no sleep
\* of a retry sequence is longer than 30 seconds.
C11_BackoffBound ==
    /\ backoff_call.pc = "done" =>
          /\ backoff_call.prev = BackoffNone => backoff_call.sleep = 10
          /\ backoff_call.sleep \in 0..(MAX_FILE_OPEN_SLEEP_SEC * 10)
    /\ \A p \in Procs :
          /\ writer[p].sleeps = 0 => writer[p].backoff_secs = BackoffNone
          /\ writer[p].sleeps = 1 => writer[p].backoff_secs = 10
          /\ writer[p].sleeps >= 1 =>
                writer[p].backoff_secs \in 0..(MAX_FILE_OPEN_SLEEP_SEC * 10)

\* a product above 30 seconds was replaced by 9.9 seconds
C11_Witness ==
    /\ backoff_call.pc = "done"
    /\ backoff_call.prev = 300
    /\ backoff_call.multiplier = 999
    /\ backoff_call.sleep = 99

\* ------------------------------------------------------------------------
\* Properties of check_continue (SpecContinue)
\* ------------------------------------------------------------------------
\* C15: check_continue returns -1000 with a message exactly when no file of the
\* list has one of the extensions 'tif', 'tiff', 'jpg', and 0 otherwise; it
\* returns 0 exactly when the filter of perform_process selects a file.
C15_ContinueGate ==
    continue_call.pc = "done" =>
        LET result == continue_call.result
            images == {i \in DOMAIN list_files : list_files[i].ext \in {"tif", "tiff", "jpg"}}
        IN  /\ result.code \in {0, -1000}
            /\ result.code = -1000 <=> images = {}
            /\ result.code = -1000 => result.msg # ""
            /\ result.code = 0
                  <=> filter_file_list_by_ext(list_files, supported_image_file_exts) # <<>>

\* the second file of the list is the only image: the gate lets the run go on
C15_Witness ==
    /\ continue_call.pc = "done"
    /\ Len(list_files) = 2
    /\ list_files[1].path = ".tif"
    /\ list_files[1].ext = ""
    /\ list_files[2].path = "f.tif"
    /\ list_files[2].ext = "tif"
    /\ continue_call.result.code = 0

\* ------------------------------------------------------------------------
\* Properties of get_centroid_latlon (SpecCentroid)
\* ------------------------------------------------------------------------
\* C20: get_centroid_latlon raises its georeference error whenever the bounds
\* of the file are the four nan of image_get_geobounds or get_epsg returned
\* None, and returns no centroid then.
C20_GeoreferenceError ==
    LET g == centroid_call.file
    IN  (/\ centroid_call.pc = "done"
         /\ \/ image_get_geobounds(g) = <<NaN, NaN, NaN, NaN>>
            \/ get_epsg(g) = "None")
        => /\ centroid_call.result.status = "RuntimeError"
           /\ centroid_call.result.kind = ""

\* ------------------------------------------------------------------------
\* Properties of perform_process (SpecConfigRun)
\* ------------------------------------------------------------------------
\* ','.join(parts), on strings kept as character sequences
RECURSIVE CommaJoin(_)
CommaJoin(parts) ==
    IF parts = <<>> THEN <<>>
    ELSE IF Len(parts) = 1 THEN parts[1]
    ELSE parts[1] \o <<",">> \o CommaJoin(Tail(parts))

\* VARIABLE_NAMES is absent or empty after trimming
NamesMissing ==
    \/ algorithm_lidar["VARIABLE_NAMES"].type = "absent"
    \/ /\ algorithm_lidar["VARIABLE_NAMES"].type = "str"
       /\ Strip(algorithm_lidar["VARIABLE_NAMES"].s) = <<>>

\* C7: with VARIABLE_NAMES absent or empty the run that reaches the lookup ends
\* in its RuntimeError, no capture was counted, no write was started and no
\* file changes; with VARIABLE_NAMES declared the run goes on with the parts
\* between the commas of the trimmed declaration, in their order.
C7_VariableListRequired ==
    /\ [](NamesMissing =>
            /\ pp.pc \in {"start", "raised", "returned"}
            /\ pp.pc = "raised" => pp.error = "RuntimeError"
            /\ pp.pc = "returned" =>
                  ~hasattr(algorithm_lidar, "calculate") /\ pp.result.code = -1001
            /\ pp.num_image_files = 0
            /\ calls = 0)
    /\ []((~NamesMissing /\ hasattr(algorithm_lidar, "calculate")
            /\ hasattr(algorithm_lidar, "VARIABLE_UNITS") /\ pp.pc # "start") =>
            /\ pp.pc # "raised"
            /\ pp.variable_names # <<>>
            /\ CommaJoin(pp.variable_names) = Strip(algorithm_lidar["VARIABLE_NAMES"].s)
            /\ \A i \in DOMAIN pp.variable_names : "," \notin Range(pp.variable_names[i]))
    /\ [][NamesMissing => files' = files /\ writer' = writer]_vars

\* the run of an algorithm whose VARIABLE_NAMES is blank ended in the error
C7_Witness ==
    /\ pp.pc = "raised"
    /\ pp.error = "RuntimeError"
    /\ hasattr(algorithm_lidar, "calculate")
    /\ algorithm_lidar["VARIABLE_NAMES"] = DeclStr(<<" ">>)
    /\ files[FILE_NAME_CSV].exists

\* ------------------------------------------------------------------------
\* Properties of a run over any list of files (SpecRun)
\* ------------------------------------------------------------------------
\* The file is one that goes through: it has bounds and an EPSG code, and
\* calculate() returns a value that validates
Succeeds(one_file) ==
    /\ one_file.georef.readable
    /\ one_file.georef.epsg \notin {"None", "unsupported"}
    /\ one_file.calc.kind \notin {"raises", "none"}
    /\ validate_calc_value(one_file.calc, pp.variable_names).status = "ok"

\* The rows a file that goes through leaves in the three CSV files
RowsWritten(one_file) ==
    LET values == validate_calc_value(one_file.calc, pp.variable_names).values
    IN  /\ CsvRow(algorithm_lidar, one_file, pp.variable_names, values)
              \in Range(files[FILE_NAME_CSV].lines)
        /\ BetyRow(algorithm_lidar, one_file, pp.variable_names, values)
              \in Range(files[FILE_NAME_BETYDB_CSV].lines)
        /\ \A idx \in DOMAIN pp.variable_names :
              GeoRow(one_file, pp.variable_names, values, idx)
                 \in Range(files[FILE_NAME_GEO_CSV].lines)

\* C16: an exception raised for one file (no georeference, calculate() or
\* validate_calc_value failing, a write failing) is caught: no later file of
\* the filtered list is left out, every file is counted, and every file that
\* goes through has its rows in the CSV files, but the one whose write failed.
C16_FailureIsolation ==
    /\ []((pp.pc = "returned" /\ pp.result.code = 0) =>
            /\ pp.image_files = filter_file_list_by_ext(list_files, supported_image_file_exts)
            /\ pp.result.files_processed = Len(pp.image_files)
            /\ Cardinality({j \in DOMAIN pp.image_files :
                               /\ Succeeds(pp.image_files[j])
                               /\ ~RowsWritten(pp.image_files[j])}) <= 1 - write_faults)
    /\ [][pp.pc \notin {"start", "returned", "raised"} =>
            /\ pp'.pc # "raised"
            /\ pp'.file_idx \in {pp.file_idx, pp.file_idx + 1}
            /\ pp'.num_image_files \in {pp.num_image_files, pp.num_image_files + 1}]_vars

\* the first file has no EPSG code, the second one has its rows written
C16_Witness ==
    /\ pp.pc = "returned"
    /\ Len(pp.image_files) = 2
    /\ pp.image_files[1].georef.epsg = "None"
    /\ Succeeds(pp.image_files[2])
    /\ RowsWritten(pp.image_files[2])
    /\ pp.result.files_processed = 2
    /\ pp.result.lines_written = 1

\* a write failed for the first file, the second one has its rows written
C16_WitnessWrite ==
    /\ pp.pc = "returned"
    /\ Len(pp.image_files) = 2
    /\ write_faults = 0
    /\ Succeeds(pp.image_files[1])
    /\ ~RowsWritten(pp.image_files[1])
    /\ Succeeds(pp.image_files[2])
    /\ RowsWritten(pp.image_files[2])

\* A declaration the run needs is missing: a lookup of the variable names or
\* of the variable units raises
ConfigMissing ==
    \/ get_algorithm_variable_list(algorithm_lidar, "VARIABLE_NAMES").status # "ok"
    \/ get_csv_header_fields(algorithm_lidar).status # "ok"

\* C17: a run only ends in an exception when a declaration the algorithm must
\* make is missing; every other run, also one with no usable output directory
\* or time stamp, with no file that goes through or with nothing written,
\* returns code 0 with its files_processed and lines_written.
C17_OnlyConfigIsFatal ==
    /\ pp.pc = "raised" => ConfigMissing
    /\ pp.pc = "returned" =>
          IF hasattr(algorithm_lidar, "calculate")
          THEN /\ pp.result.code = 0
               /\ pp.result.files_processed
                     = Len(filter_file_list_by_ext(list_files, supported_image_file_exts))
               /\ pp.result.lines_written <= pp.result.files_processed
          ELSE pp.result.code = -1001

\* ------------------------------------------------------------------------
\* Properties of the trait defaults and tables (SpecTraits)
\* ------------------------------------------------------------------------
\* The declaration attr holds a non-empty value
DeclaredValue(attr) ==
    algorithm_lidar[attr].type = "str" /\ algorithm_lidar[attr].s # <<>>

\* What a field of a table holds: the declared value for the fields listed
\* in overrides (field :> declaration) when it is non-empty, else the default
ExpectedTrait(field, overrides) ==
    IF field \in DOMAIN overrides /\ DeclaredValue(overrides[field])
    THEN PyStr(ToStr(algorithm_lidar[overrides[field]].s))
    ELSE get_default_trait(field)

CsvOverrides ==
    [f \in {"citation_author", "citation_title", "citation_year"} |->
        CASE f = "citation_author" -> "CITATION_AUTHOR"
          [] f = "citation_title" -> "CITATION_TITLE"
          [] f = "citation_year" -> "CITATION_YEAR"]

BetyOverrides ==
    [f \in {"citation_author", "citation_title", "citation_year", "method"} |->
        CASE f = "citation_author" -> "CITATION_AUTHOR"
          [] f = "citation_title" -> "CITATION_TITLE"
          [] f = "citation_year" -> "CITATION_YEAR"
          [] f = "method" -> "ALGORITHM_METHOD"]

\* C19: get_default_trait returns an empty list for 'canopy_cover' and 'site',
\* else the mapped default of a name of TRAIT_NAME_MAP ('2' for access_level,
\* 'Unknown' for species), else ''; the flat CSV and the BETYdb table hold, for
\* every field of their list (the fixed fields, then the variable names in
\* order), that default, replaced for the citation author, title and year
\* (and the BETYdb method) by the algorithm's declaration when it is non-empty.
C19_TraitDefaults ==
    /\ trait_call.pc = "done" =>
          LET name == trait_call.trait_name
              value == trait_call.value
          IN  /\ name \in {"canopy_cover", "site"} => value = PyEmptyList
              /\ name = "access_level" => value = PyStr("2")
              /\ name = "species" => value = PyStr("Unknown")
              /\ name = "local_datetime" => value = PyNone
              /\ name = "citation_author" => value = PyStr("\"Unknown\"")
              /\ name \in {"citation_title", "method"} => value = PyStr("Unknown")
              /\ name = "citation_year" => value = PyStr("0000")
              /\ name \in {"germplasmName", "lat", "a", ""} => value = PyStr("")
    /\ trait_call.tables_pc = "done" =>
          LET names == StrList(trait_call.names)
              csv == trait_call.csv
              bety == trait_call.bety
          IN  /\ csv.fields = <<"germplasmName", "site", "timestamp", "lat", "lon",
                                "citation_author", "citation_year", "citation_title">>
                               \o names
              /\ bety.fields = <<"local_datetime", "access_level", "species", "site",
                                 "citation_author", "citation_year", "citation_title",
                                 "method">> \o names
              /\ DOMAIN csv.traits = Range(csv.fields)
              /\ DOMAIN bety.traits = Range(bety.fields)
              /\ \A f \in Range(csv.fields) :
                    csv.traits[f] = ExpectedTrait(f, CsvOverrides)
              /\ \A f \in Range(bety.fields) :
                    bety.traits[f] = ExpectedTrait(f, BetyOverrides)

\* 'site' got an empty list; the declared author replaced the default and the
\* empty title did not, and the variable named 'method' got the default
C19_Witness ==
    /\ trait_call.pc = "done"
    /\ trait_call.trait_name = "site"
    /\ trait_call.value = PyEmptyList
    /\ trait_call.tables_pc = "done"
    /\ trait_call.names = << <<"a">>, <<"method">> >>
    /\ algorithm_lidar["CITATION_AUTHOR"] = DeclStr(<<"a">>)
    /\ algorithm_lidar["CITATION_TITLE"] = DeclStr(<<>>)
    /\ algorithm_lidar["ALGORITHM_METHOD"] = Absent
    /\ trait_call.csv.traits["citation_author"] = PyStr("a")
    /\ trait_call.csv.traits["citation_title"] = PyStr("Unknown")
    /\ trait_call.csv.traits["method"] = PyStr("Unknown")
    /\ trait_call.bety.traits["site"] = PyEmptyList

\* ------------------------------------------------------------------------
\* Properties of the overlap admission (SpecOverlap)
\* ------------------------------------------------------------------------
\* C18: a (capture, plot) pair is clipped, calculated and written only if its
\* overlap fraction is at least 0.10; a pair below 0.10 is skipped and logged,
\* is no error and leaves no row (0.10 is admitted, 0.099999 is not).
C18_OverlapAdmission ==
    LET f == overlap_call.fraction
    IN  /\ (overlap_call.clipped \/ overlap_call.calculated \/ overlap_call.rows > 0)
            => f >= 100000
        /\ (overlap_call.pc \notin {"idle", "admit"})
            => (overlap_call.admitted <=> f >= 100000)
        /\ (overlap_call.pc = "done" /\ f < 100000)
            => /\ overlap_call.logged = "skipped"
               /\ overlap_call.error = ""
               /\ overlap_call.rows = 0
        /\ (overlap_call.pc = "done" /\ f = 99999) => ~overlap_call.admitted

\* the pair whose overlap is exactly 0.10 was clipped and has its row
C18_Witness ==
    /\ overlap_call.pc = "done"
    /\ overlap_call.fraction = 100000
    /\ overlap_call.admitted
    /\ overlap_call.clipped
    /\ overlap_call.rows = 1

\* ------------------------------------------------------------------------
\* Properties of get_metadata_timestamp (SpecTimestamp)
\* ------------------------------------------------------------------------
\* C21: get_metadata_timestamp returns a string for every metadata
\* dictionary, the empty dictionary and metadata without a 'timestamp' and
\* without a 'gantry_variable_metadata'/'datetime' entry included.
\* (A 'timestamp' entry that itself holds None is left aside: the claim is
\* about the entries that are missing.)
C21_TimestampIsStr ==
    LET check_md == IF timestamp_call.metadata.has_content
                    THEN timestamp_call.metadata.content
                    ELSE timestamp_call.metadata.top
    IN  (timestamp_call.pc = "done" /\ check_md.timestamp # PyNone)
            => timestamp_call.result.type = "str"

\* ------------------------------------------------------------------------
\* Properties of concurrent appends (SpecConcurrent)
\* ------------------------------------------------------------------------
\* The lines of a sequence that are rows, not the header
DataLines(lines) == SelectSeq(lines, LAMBDA line : line # AppendHeader)

\* The lines a step appended to the file
Appended(f) == SubSeq(files'[f].lines, Len(files[f].lines) + 1, Len(files'[f].lines))

\* The processes whose call returns True in this step
ReturnsTrue(p) == writer[p].pc # "done" /\ writer'[p].pc = "done" /\ writer'[p].ret = "True"

\* C22: in every interleaving of write_csv_file calls of several processes on
\* one file, no step changes or removes a line that is in the file, a call
\* that returns True adds exactly one row, which is its own data, and no
\* other step adds a row: the rows of the file are the rows of the calls that
\* returned True, and only header lines can be written twice.
C22_NoLostRows ==
    [][LET f == FILE_NAME_CSV
       IN  /\ Len(files'[f].lines) >= Len(files[f].lines)
           /\ SubSeq(files'[f].lines, 1, Len(files[f].lines)) = files[f].lines
           /\ \A p \in Procs :
                  ReturnsTrue(p) => DataLines(Appended(f)) = <<writer[p].data>>
           /\ (\A p \in Procs : ~ReturnsTrue(p)) => DataLines(Appended(f)) = <<>>]_vars

\* two calls that were open at the same time (both wrote the header) have
\* both returned True and each has its row in the file
C22_Witness ==
    /\ \A p \in Procs : writer[p].pc = "done" /\ writer[p].ret = "True"
    /\ writer["w1"].data = "row1"
    /\ writer["w2"].data = "row2"
    /\ Len(files[FILE_NAME_CSV].lines) = 4
    /\ Len(DataLines(files[FILE_NAME_CSV].lines)) = 2
    /\ \E i, j \in DOMAIN files[FILE_NAME_CSV].lines :
          files[FILE_NAME_CSV].lines[i] = "row1" /\ files[FILE_NAME_CSV].lines[j] = "row2"

\* ------------------------------------------------------------------------
\* Properties of the statistics and the rows of a run (SpecStatistics)
\* ------------------------------------------------------------------------
\* The rows of a file: its lines that are not its header
RowsOf(f, header) == SelectSeq(files[f].lines, LAMBDA line : line # header)

\* C24: at the end of a run the reported lines_written is the number of rows
\* that were appended to the flat CSV file, and the flat CSV file is listed in
\* the result only if it got a row; a capture whose open of the CSV file was
\* given up after 10 tries is not counted.
C24_StatisticsMatchFiles ==
    (pp.pc = "returned" /\ pp.result.code = 0)
        => /\ pp.result.lines_written = Len(RowsOf(FILE_NAME_CSV, pp.csv_header))
           /\ (\E i \in DOMAIN pp.result.file : pp.result.file[i] = FILE_NAME_CSV)
                  => Len(RowsOf(FILE_NAME_CSV, pp.csv_header)) >= 1

\* The last n lines of a file
LastLines(f, n) ==
    IF Len(files[f].lines) < n THEN <<>>
    ELSE SubSeq(files[f].lines, Len(files[f].lines) - n + 1, Len(files[f].lines))

\* site, trait, lat, lon, dp_time, source, value, timestamp of one variable
ExpectedGeoRows(capture, names, values) ==
    [i \in DOMAIN names |->
        Join(<<PlotName, ToStr(names[i]), LatOf(capture), LonOf(capture), LocalTime,
               capture.path, ToString(values[i]), DateStamp>>, ",")]

\* This step appends a line to the file
Grows(f) == Len(files'[f].lines) > Len(files[f].lines)

\* C23: with the geostreams output enabled, a capture that the run counts as
\* written has exactly len(VARIABLE_NAMES) geostreams rows, one per variable in
\* the order of the declaration, each with the variable's name as trait and its
\* validated value as value; they are in the geostreams file before the
\* capture's one flat CSV row is appended, and that row is in its file before
\* the capture's one BETYdb row is appended.
C23_GeostreamsLongFormat ==
    [][LET capture == pp.image_files[pp.file_idx]
           names == pp.variable_names
           geo_rows == ExpectedGeoRows(capture, names, pp.values)
           csv_row == CsvRow(algorithm_lidar, capture, names, pp.values)
       IN  /\ (pp.write_geostreams_csv /\ pp'.entries_written = pp.entries_written + 1)
                => /\ LastLines(FILE_NAME_GEO_CSV, Len(names)) = geo_rows
                   /\ LastLines(FILE_NAME_CSV, 1) = <<csv_row>>
           /\ (pp.write_geostreams_csv /\ Grows(FILE_NAME_CSV))
                => LastLines(FILE_NAME_GEO_CSV, Len(names)) = geo_rows
           /\ (pp.write_geostreams_csv /\ Grows(FILE_NAME_BETYDB_CSV))
                => /\ LastLines(FILE_NAME_GEO_CSV, Len(names)) = geo_rows
                   /\ LastLines(FILE_NAME_CSV, 1) = <<csv_row>>]_vars

\* ------------------------------------------------------------------------
\* Properties of the waits between the tries (SpecBackoff)
\* ------------------------------------------------------------------------
\* C25: every backoff that get_open_backoff returns for a previous backoff, and
\* every backoff write_csv_file sleeps between two tries, is at least 0.1
\* second, whatever the random numbers are.
C25_PositiveBackoff ==
    /\ (backoff_call.pc = "done" /\ backoff_call.prev >= 1) => backoff_call.sleep >= 1
    /\ \A p \in Procs : writer[p].sleeps >= 1 => writer[p].backoff_secs >= 1

====
